---- MODULE Spec2Model ----
(***************************************************************************)
(* The context-graph store of GetSticky: SQLiteDB (structured store),      *)
(* LanceDBManager (semantic index), DatabaseManager (graph manager, the    *)
(* emitter of 'mutation' events) and HttpNotificationClient (notifier).    *)
(*                                                                         *)
(* Strings that the code concatenates (node context) are sequences of      *)
(* tokens: a word, or the separator "\n\n".  The empty string is << >>.    *)
(* An async DatabaseManager method is a sequence of steps, one per await   *)
(* of a LanceDBManager call; the synchronous code between two awaits is    *)
(* one atomic step (JavaScript runs it without interleaving).              *)
(***************************************************************************)
EXTENDS Naturals, Integers, Sequences, FiniteSets, Bags, TLC

\* ------------------------------------------------------------------ bounds

\* Longest context string (in tokens) a node row may hold in the model.
MaxCtx == 3
\* Most rows of the context_chain table.
MaxChain == 2
\* Most rows of the LanceDB contexts table.
MaxVec == 2
\* Most mutating calls in one behaviour of the whole interface.
MaxCalls == 2
\* Most mutating calls in one behaviour of the node and context calls.
MaxGraphCalls == 3
\* Most notifications handed to the notifier and not yet settled.
MaxInflight == 2
\* Most mutating calls in one behaviour of the server with its notifier.
MaxNotifyCalls == 2
\* Most mutating calls in one behaviour of the board calls.
MaxBoardCalls == 5
\* Most calls in one behaviour of the store with its projects.
MaxStoreCalls == 4
\* Most calls in one behaviour that ends with the removal of a project.
MaxProjectCalls == 5
\* Most mutating calls in one behaviour whose events are examined.
MaxEventCalls == 3
\* Most calls in one behaviour of the store's node rows with their stamps.
MaxUpdateCalls == 3
\* The latest reading of the store's clock, counted from the first.
MaxClock == 1
\* Most constructions and board calls in one behaviour over a legacy file.
MaxMigrateCalls == 3
\* Most tool requests in one behaviour of the Remote Control Surface.
MaxToolCalls == 2
\* Most mutating calls in one behaviour with observed deliveries.
MaxPublishCalls == 3

\* ------------------------------------------------------------- input sets

NULL == "<null>"
UNDEF == "<undefined>"
SEP == "\\n\\n"
\* An optional string argument that was not given.
UndefStr == <<UNDEF>>

NodeIds == {"n1", "n2", "n3"}
EdgeIds == {"e1"}
BoardIds == {"default", "b1"}
ProjectIds == {"default", "p1"}
\* The context a node is created with names the node; addContext adds "beta";
\* updateNode writes "edited".
CreateWord(id) ==
  CASE id = "n1" -> "alpha"
    [] id = "n2" -> "gamma"
    [] OTHER -> "delta"
AddWords == {"beta"}
EditWords == {"edited"}
NodeTypes == {"conversation"}
Contents == {"c0"}
Sources == {"user"}
BoardNames == {<<"P", "l", "a", "n">>}
Callers == {"c1", "c2"}

\* ------------------------------------------------------------- variables

VARIABLES
  sqlite,      \* SQLiteDB: [projects, boards, nodes, edges, chain]
  vec,         \* LanceDBManager.table: a bag of VectorContext rows
  enabled,     \* LanceDBManager.enabled
  pc,          \* per caller: "idle", the await the call is suspended at, or "done"
  frame,       \* per caller: the locals of the call in progress
  result,      \* per caller: how the caller's last call ended
  emitted,     \* per caller: the mutation events of its current/last call
  subscribed,  \* whether a 'mutation' listener (the notifier) is attached
  inflight,    \* payloads handed to notifier.publish and not yet settled
  calls,       \* number of mutating calls begun so far
  limit,       \* the most mutating calls of this behaviour
  delivery,    \* how the publish promise settled last: fetch outcome, promise state
  manager      \* the module's dbManager: whether it is set, its store handle, its flag

vars == <<sqlite, vec, enabled, pc, frame, result, emitted, subscribed, inflight, calls, limit,
          delivery, manager>>

\* No manager has been made: dbManager is null.
NoManager == [dbManager |-> FALSE, open |-> FALSE, initialized |-> FALSE]

\* The manager of a running server: made by getDB, its store open, init done.
OpenManager == [dbManager |-> TRUE, open |-> TRUE, initialized |-> TRUE]

\* ---------------------------------------------------------------- strings

\* Array.prototype.join(sep) on a list of strings.
RECURSIVE Join(_, _)
Join(list, sep) ==
  IF list = << >> THEN << >>
  ELSE IF Len(list) = 1 THEN list[1]
  ELSE list[1] \o sep \o Join(Tail(list), sep)

\* String.prototype.toLowerCase on one character of the model's alphabet.
ToLower(ch) ==
  CASE ch = "P" -> "p"
    [] OTHER -> ch

IsAlnumLower(ch) == ch \in {"p", "l", "a", "n", "m", "i", "b", "1"}

\* name.toLowerCase().replace(/[^a-z0-9]+/g, '-'): each maximal run of
\* other characters becomes one '-'.
RECURSIVE ReplaceRuns(_, _)
ReplaceRuns(s, inRun) ==
  IF s = << >> THEN << >>
  ELSE IF IsAlnumLower(s[1]) THEN <<s[1]>> \o ReplaceRuns(Tail(s), FALSE)
  ELSE IF inRun THEN ReplaceRuns(Tail(s), TRUE)
  ELSE <<"-">> \o ReplaceRuns(Tail(s), TRUE)

\* .replace(/^-|-$/g, ''): one leading and one trailing '-' removed.
TrimDash(s) ==
  LET a == IF s # << >> /\ s[1] = "-" THEN Tail(s) ELSE s
  IN IF a # << >> /\ a[Len(a)] = "-" THEN SubSeq(a, 1, Len(a) - 1) ELSE a

Slugify(name) == TrimDash(ReplaceRuns([i \in 1..Len(name) |-> ToLower(name[i])], FALSE))

\* The characters of an id, as `slug = id` and `${b.id}-${suffix}` read them.
IdChars(id) ==
  CASE id = "default" -> <<"d", "e", "f", "a", "u", "l", "t">>
    [] id = "main" -> <<"m", "a", "i", "n">>
    [] id = "b1" -> <<"b", "1">>
    [] OTHER -> <<id>>

\* String(n) of a positive integer, as the template literal writes the suffix.
RECURSIVE DigitChars(_)
DigitChars(n) ==
  LET d == <<"0", "1", "2", "3", "4", "5", "6", "7", "8", "9">>
  IN IF n < 10 THEN <<d[n + 1]>> ELSE DigitChars(n \div 10) \o <<d[(n % 10) + 1]>>

\* ------------------------------------------------------------- SQLiteDB

\* The database after the constructor ran initSchema on a new file.
Sqlite_init ==
  [projects |-> {"default"},
   boards   |-> [b \in {"default"} |->
                   [id |-> "default", name |-> <<"D">>, slug |-> <<"m", "a", "i", "n">>,
                    project_id |-> "default"]],
   nodes    |-> << >>,
   edges    |-> << >>,
   chain    |-> << >>]

Restrict(f, S) == [x \in S |-> f[x]]

\* ---- initSchema on a file that may come from an earlier version.  A file is
\* the record above with one more field, schema: the tables, the added
\* columns and the indexes it has.  A boards row has slug and project_id only
\* when the table has those columns.

MainSlug == <<"m", "a", "i", "n">>

DefaultBoardName == <<"D">>

\* A file the constructor has just created.
NewFile ==
  [schema |-> {}, projects |-> {}, boards |-> << >>, nodes |-> << >>,
   edges |-> << >>, chain |-> << >>]

HasSlugColumn(db) == "boards.slug" \in db.schema

\* Everything initSchema creates.
FullSchema ==
  {"projects", "boards", "boards.slug", "boards.project_id", "idx_boards_project_slug",
   "boards.viewport_x", "boards.viewport_y", "boards.viewport_zoom",
   "nodes", "nodes.board_id", "edges", "context_chain", "settings",
   "idx_nodes_parent", "idx_nodes_board", "idx_edges_source", "idx_edges_target",
   "idx_context_node"}

SchemaComplete(db) == FullSchema \subseteq db.schema

\* How a run of statements stands: the file and the error thrown, if any.
Ran(db) == [db |-> db, error |-> "none"]

Failed(db, error) == [db |-> db, error |-> error]

\* CREATE TABLE IF NOT EXISTS projects, boards (original columns), nodes, and
\* the two INSERT OR IGNORE seeds.  A seeded board row takes the column
\* defaults slug '' and project_id 'default' when the table has the columns.
Schema_createAndSeed(db) ==
  LET schema2 == db.schema \cup {"projects", "boards"}
                   \cup (IF "nodes" \in db.schema THEN {} ELSE {"nodes", "nodes.board_id"})
      seed == IF HasSlugColumn(db)
              THEN [id |-> "default", name |-> DefaultBoardName, slug |-> << >>,
                    project_id |-> "default"]
              ELSE [id |-> "default", name |-> DefaultBoardName]
  IN [db EXCEPT !.schema = schema2,
                !.projects = db.projects \cup {"default"},
                !.boards = IF "default" \in DOMAIN db.boards THEN db.boards
                           ELSE db.boards @@ ("default" :> seed)]

\* if (!columns.some(col => col.name === 'board_id')) ALTER TABLE nodes ADD
\* COLUMN board_id TEXT NOT NULL DEFAULT 'default'.
Schema_addBoardId(db) ==
  IF "nodes.board_id" \in db.schema THEN db
  ELSE [db EXCEPT !.schema = db.schema \cup {"nodes.board_id"},
                  !.nodes = [n \in DOMAIN db.nodes |->
                               db.nodes[n] @@ [board_id |-> "default"]]]

\* As NeedsSlugColumns, without the look at table_info(boards).
NeedsSlugColumns_unchecked(db) == TRUE

\* !boardColumns.some(col => col.name === 'slug')
NeedsSlugColumns(db) == ~HasSlugColumn(db)

\* The body of that if: two ALTER TABLE ... ADD COLUMN (an error when the
\* column is there already), then slug 'main' for the default board and
\* slug = id for every row whose slug is ''.
Schema_addSlugColumns(db) ==
  IF HasSlugColumn(db) THEN Failed(db, "duplicate column name: slug")
  ELSE Ran([db EXCEPT
              !.schema = db.schema \cup {"boards.slug", "boards.project_id"},
              !.boards = [b \in DOMAIN db.boards |->
                            [id |-> b, name |-> db.boards[b].name,
                             slug |-> IF b = "default" THEN MainSlug ELSE IdChars(b),
                             project_id |-> "default"]]])

\* UPDATE boards SET slug = 'main', project_id = 'default'
\*   WHERE id = 'default' AND slug = ''.
Schema_fixDefaultBoard(db) ==
  [db EXCEPT !.boards = [b \in DOMAIN db.boards |->
     IF b = "default" /\ db.boards[b].slug = << >>
     THEN [db.boards[b] EXCEPT !.slug = MainSlug, !.project_id = "default"]
     ELSE db.boards[b]]]

\* SELECT 1 FROM boards WHERE project_id = ? AND slug = ?
SlugTaken(db, projectId, slug) ==
  \E b \in DOMAIN db.boards :
    db.boards[b].project_id = projectId /\ db.boards[b].slug = slug

\* while (taken(candidate)) candidate = `${b.id}-${suffix++}`
RECURSIVE FreeSlug(_, _, _, _)
FreeSlug(db, b, candidate, suffix) ==
  IF SlugTaken(db, db.boards[b].project_id, candidate)
  THEN FreeSlug(db, b, IdChars(b) \o <<"-">> \o DigitChars(suffix), suffix + 1)
  ELSE candidate

\* SELECT id, project_id FROM boards WHERE slug = '' AND id != 'default'
EmptySlugBoards(db) ==
  {b \in DOMAIN db.boards : db.boards[b].slug = << >> /\ b # "default"}

\* for (const b of emptySlugBoards) { ...; UPDATE boards SET slug = ? WHERE id = ? }
\* over the rows in the order the SELECT returned them.
RECURSIVE Schema_fixEmptySlugs(_, _)
Schema_fixEmptySlugs(db, order) ==
  IF order = << >> THEN db
  ELSE LET b == order[1]
           slug == FreeSlug(db, b, IdChars(b), 2)
       IN Schema_fixEmptySlugs([db EXCEPT !.boards[b].slug = slug], Tail(order))

\* The orders in which a SELECT without ORDER BY may return the rows.
RowOrders(S) ==
  {o \in [1..Cardinality(S) -> S] : \A i, j \in 1..Cardinality(S) : o[i] = o[j] => i = j}

\* Two rows with the same (project_id, slug).
HasDuplicateSlug(db) ==
  \E a, b \in DOMAIN db.boards :
    /\ a # b
    /\ db.boards[a].project_id = db.boards[b].project_id
    /\ db.boards[a].slug = db.boards[b].slug

\* CREATE UNIQUE INDEX IF NOT EXISTS idx_boards_project_slug ON
\* boards(project_id, slug): an error when the rows are not unique.
Schema_createUniqueIndex(db) ==
  IF "idx_boards_project_slug" \in db.schema THEN Ran(db)
  ELSE IF HasDuplicateSlug(db)
  THEN Failed(db, "UNIQUE constraint failed: boards.project_id, boards.slug")
  ELSE Ran([db EXCEPT !.schema = db.schema \cup {"idx_boards_project_slug"}])

\* The viewport columns when missing, then CREATE TABLE / INDEX IF NOT EXISTS
\* for edges, context_chain, settings and the five plain indexes.
Schema_addViewportAndRest(db) ==
  [db EXCEPT !.schema = db.schema \cup FullSchema]

\* initSchema: the statements in order, each committed as it runs; the first
\* error ends the run and leaves what ran before it.
Sqlite_initSchema(db, order) ==
  LET d1 == Schema_addBoardId(Schema_createAndSeed(db))
      r2 == IF NeedsSlugColumns(d1) THEN Schema_addSlugColumns(d1) ELSE Ran(d1)
  IN IF r2.error # "none" THEN r2
     ELSE LET d3 == Schema_fixEmptySlugs(Schema_fixDefaultBoard(r2.db), order)
              r4 == Schema_createUniqueIndex(d3)
          IN IF r4.error # "none" THEN r4
             ELSE Ran(Schema_addViewportAndRest(r4.db))

\* The rows SELECTed for the loop of that run.
Sqlite_initSchema_rows(db) ==
  LET d1 == Schema_addBoardId(Schema_createAndSeed(db))
      r2 == IF NeedsSlugColumns(d1) THEN Schema_addSlugColumns(d1) ELSE Ran(d1)
  IN EmptySlugBoards(Schema_fixDefaultBoard(r2.db))

NodeExists(db, id) == id \in DOMAIN db.nodes

NoRow == [id |-> NULL]

Sqlite_getNode(db, id) == IF NodeExists(db, id) THEN db.nodes[id] ELSE NoRow

\* INSERT INTO nodes: PRIMARY KEY(id); FOREIGN KEY(parent_id) REFERENCES nodes(id).
\* (A new row is never given its own id as parent_id here: see NodeInputs.)
Sqlite_createNode_throws(db, node) ==
  \/ NodeExists(db, node.id)
  \/ node.parent_id # NULL /\ ~NodeExists(db, node.parent_id)

Sqlite_createNode(db, node) ==
  [db EXCEPT !.nodes = db.nodes @@ (node.id :>
     [id |-> node.id, type |-> node.type, content |-> node.content,
      context |-> node.context, parent_id |-> node.parent_id,
      board_id |-> IF node.board_id = UNDEF THEN "default" ELSE node.board_id])]

\* UPDATE nodes SET <the provided fields> WHERE id = ?.  A field is provided
\* when it is not undefined; parent_id may be provided as null.
NoUpdates == [content |-> UNDEF, context |-> UndefStr, type |-> UNDEF, parent_id |-> UNDEF]

HasFields(updates) ==
  \/ updates.content # UNDEF
  \/ updates.context # UndefStr
  \/ updates.type # UNDEF
  \/ updates.parent_id # UNDEF

\* The FOREIGN KEY on parent_id is checked only for a row the UPDATE touches.
Sqlite_updateNode_throws(db, id, updates) ==
  /\ NodeExists(db, id)
  /\ updates.parent_id \notin {UNDEF, NULL}
  /\ ~NodeExists(db, updates.parent_id)

\* As Sqlite_updateNode, but the row is written again whole (INSERT OR
\* REPLACE), its board_id taking the column's default.
Sqlite_updateNode_replacesRow(db, id, updates) ==
  IF ~HasFields(updates) \/ ~NodeExists(db, id) THEN db
  ELSE [db EXCEPT !.nodes[id] =
          [id        |-> @.id,
           type      |-> IF updates.type # UNDEF THEN updates.type ELSE @.type,
           content   |-> IF updates.content # UNDEF THEN updates.content ELSE @.content,
           context   |-> IF updates.context # UndefStr THEN updates.context ELSE @.context,
           parent_id |-> IF updates.parent_id # UNDEF THEN updates.parent_id ELSE @.parent_id,
           board_id  |-> "default"]]

\* As Sqlite_updateNode, but the UPDATE sets all four columns: a parent_id
\* that was not provided is written as null.
Sqlite_updateNode_allColumns(db, id, updates) ==
  IF ~HasFields(updates) \/ ~NodeExists(db, id) THEN db
  ELSE [db EXCEPT !.nodes[id] =
          [id        |-> @.id,
           type      |-> IF updates.type # UNDEF THEN updates.type ELSE @.type,
           content   |-> IF updates.content # UNDEF THEN updates.content ELSE @.content,
           context   |-> IF updates.context # UndefStr THEN updates.context ELSE @.context,
           parent_id |-> IF updates.parent_id # UNDEF THEN updates.parent_id ELSE NULL,
           board_id  |-> @.board_id]]

\* As Sqlite_updateNode, but a new context is also written to the children of
\* the row (inheritance kept live).
Sqlite_updateNode_live(db, id, updates) ==
  IF ~HasFields(updates) \/ ~NodeExists(db, id) THEN db
  ELSE [db EXCEPT !.nodes =
          [n \in DOMAIN db.nodes |->
             IF n = id
             THEN [id        |-> db.nodes[n].id,
                   type      |-> IF updates.type # UNDEF THEN updates.type ELSE db.nodes[n].type,
                   content   |-> IF updates.content # UNDEF THEN updates.content
                                 ELSE db.nodes[n].content,
                   context   |-> IF updates.context # UndefStr THEN updates.context
                                 ELSE db.nodes[n].context,
                   parent_id |-> IF updates.parent_id # UNDEF THEN updates.parent_id
                                 ELSE db.nodes[n].parent_id,
                   board_id  |-> db.nodes[n].board_id]
             ELSE IF db.nodes[n].parent_id = id /\ updates.context # UndefStr
             THEN [db.nodes[n] EXCEPT !.context = updates.context]
             ELSE db.nodes[n]]]

Sqlite_updateNode(db, id, updates) ==
  IF ~HasFields(updates) \/ ~NodeExists(db, id) THEN db
  ELSE [db EXCEPT !.nodes[id] =
          [id        |-> @.id,
           type      |-> IF updates.type # UNDEF THEN updates.type ELSE @.type,
           content   |-> IF updates.content # UNDEF THEN updates.content ELSE @.content,
           context   |-> IF updates.context # UndefStr THEN updates.context ELSE @.context,
           parent_id |-> IF updates.parent_id # UNDEF THEN updates.parent_id ELSE @.parent_id,
           board_id  |-> @.board_id]]

\* As CascadeNodes, with foreign keys switched off: only the rows named go.
CascadeNodes_noForeignKeys(db, gone) ==
  [db EXCEPT !.nodes = Restrict(db.nodes, DOMAIN db.nodes \ gone)]

\* Rows the storage engine removes or rewrites when the nodes in `gone` are
\* deleted: edges ON DELETE CASCADE, context_chain ON DELETE CASCADE,
\* children's parent_id ON DELETE SET NULL.
CascadeNodes(db, gone) ==
  LET keep == DOMAIN db.nodes \ gone
  IN [db EXCEPT
        !.nodes = [n \in keep |->
                     IF db.nodes[n].parent_id \in gone
                     THEN [db.nodes[n] EXCEPT !.parent_id = NULL]
                     ELSE db.nodes[n]],
        !.edges = Restrict(db.edges,
                     {e \in DOMAIN db.edges :
                        db.edges[e].source_id \notin gone /\ db.edges[e].target_id \notin gone}),
        !.chain = SelectSeq(db.chain, LAMBDA r : r.node_id \notin gone)]

\* DELETE FROM nodes WHERE id = ?; the result is changes > 0.
Sqlite_deleteNode_result(db, id) == NodeExists(db, id)

\* As Sqlite_deleteNode, were nodes.parent_id declared ON DELETE CASCADE.
Sqlite_deleteNode_withChildren(db, id) ==
  CascadeNodes(db, ({id} \cap DOMAIN db.nodes)
                     \cup {n \in DOMAIN db.nodes : db.nodes[n].parent_id = id})

Sqlite_deleteNode(db, id) == CascadeNodes(db, {id} \cap DOMAIN db.nodes)

Sqlite_getEdge(db, id) == IF id \in DOMAIN db.edges THEN db.edges[id] ELSE NoRow

Sqlite_createEdge_throws(db, edge) ==
  \/ edge.id \in DOMAIN db.edges
  \/ ~NodeExists(db, edge.source_id)
  \/ ~NodeExists(db, edge.target_id)

Sqlite_createEdge(db, edge) == [db EXCEPT !.edges = db.edges @@ (edge.id :> edge)]

Sqlite_deleteEdge_result(db, id) == id \in DOMAIN db.edges

Sqlite_deleteEdge(db, id) == [db EXCEPT !.edges = Restrict(db.edges, DOMAIN db.edges \ {id})]

\* INSERT INTO context_chain: FOREIGN KEY(node_id) REFERENCES nodes(id).
Sqlite_addContextEntry_throws(db, entry) == ~NodeExists(db, entry.node_id)

Sqlite_addContextEntry(db, entry) == [db EXCEPT !.chain = Append(db.chain, entry)]

Sqlite_getContextForNode(db, nodeId) == SelectSeq(db.chain, LAMBDA r : r.node_id = nodeId)

\* As InheritLoopRuns, without the visited set.
InheritLoopRuns_unguarded(db, w) == w.cur # NULL

\* One iteration of the while loop of getInheritedContext.  w.cur is the id
\* of currentNode (NULL when currentNode is null).
InheritLoopRuns(db, w) == w.cur # NULL /\ w.cur \notin w.visited

\* As InheritLoopBody, but with push in place of unshift.
InheritLoopBody_push(db, w) ==
  LET currentNode == db.nodes[w.cur]
  IN [cur      |-> IF currentNode.parent_id # NULL /\ NodeExists(db, currentNode.parent_id)
                   THEN currentNode.parent_id ELSE NULL,
      visited  |-> w.visited \cup {w.cur},
      contexts |-> IF currentNode.context # << >>
                   THEN w.contexts \o <<currentNode.context>>
                   ELSE w.contexts,
      steps    |-> w.steps + 1]

InheritLoopBody(db, w) ==
  LET currentNode == db.nodes[w.cur]
  IN [cur      |-> IF currentNode.parent_id # NULL /\ NodeExists(db, currentNode.parent_id)
                   THEN currentNode.parent_id ELSE NULL,
      visited  |-> w.visited \cup {w.cur},
      contexts |-> IF currentNode.context # << >>
                   THEN <<currentNode.context>> \o w.contexts
                   ELSE w.contexts,
      steps    |-> w.steps + 1]

\* The loop, run for at most `fuel` iterations.  A walk that stops because
\* the fuel ran out is a walk that has not ended: see WalkFuel.
RECURSIVE InheritLoop(_, _, _)
InheritLoop(db, w, fuel) ==
  IF InheritLoopRuns(db, w) /\ fuel > 0
  THEN InheritLoop(db, InheritLoopBody(db, w), fuel - 1)
  ELSE w

\* More iterations than a walk over distinct rows can make.
WalkFuel(db) == Cardinality(DOMAIN db.nodes) + 1

WalkFrom(id) == [cur |-> id, visited |-> {}, contexts |-> << >>, steps |-> 0]

\* The state of the walk when getInheritedContext returns (no loop runs on
\* the early return).
Sqlite_getInheritedContext_walk(db, nodeId) ==
  IF ~NodeExists(db, nodeId) \/ db.nodes[nodeId].parent_id = NULL
  THEN WalkFrom(NULL)
  ELSE InheritLoop(db, WalkFrom(nodeId), WalkFuel(db))

Sqlite_getInheritedContext(db, nodeId) ==
  IF ~NodeExists(db, nodeId) THEN << >>
  ELSE IF db.nodes[nodeId].parent_id = NULL THEN db.nodes[nodeId].context
  ELSE Join(Sqlite_getInheritedContext_walk(db, nodeId).contexts, <<SEP>>)

\* As Sqlite_branchNode_spec, but the child is put on the default board.
Sqlite_branchNode_spec_defaultBoard(db, parentId, newNodeData) ==
  [id |-> newNodeData.id, type |-> newNodeData.type, content |-> newNodeData.content,
   context |-> Sqlite_getInheritedContext(db, parentId),
   parent_id |-> parentId,
   board_id |-> "default"]

\* branchNode returns null when the parent is missing; otherwise it is a
\* createNode with the parent's inherited context and board.
Sqlite_branchNode_spec(db, parentId, newNodeData) ==
  [id |-> newNodeData.id, type |-> newNodeData.type, content |-> newNodeData.content,
   context |-> Sqlite_getInheritedContext(db, parentId),
   parent_id |-> parentId,
   board_id |-> db.nodes[parentId].board_id]

\* Projects and boards.
Sqlite_createProject_throws(db, id) == id \in db.projects

Sqlite_createProject(db, id) == [db EXCEPT !.projects = @ \cup {id}]

BoardsOfProject(db, projectId) ==
  {b \in DOMAIN db.boards : db.boards[b].project_id = projectId}

NodesOfBoards(db, bs) == {n \in DOMAIN db.nodes : db.nodes[n].board_id \in bs}

\* As Sqlite_deleteProject, without the DELETE FROM boards.
Sqlite_deleteProject_keepsBoards(db, id) ==
  IF id \notin db.projects THEN db
  ELSE LET d1 == CascadeNodes(db, NodesOfBoards(db, BoardsOfProject(db, id)))
       IN [d1 EXCEPT !.projects = @ \ {id}]

\* The transaction of deleteProject: per board the context_chain rows, the
\* edges and the nodes, then the boards, then the project.
\* As Sqlite_deleteProject_throws, without the guard of the default project.
Sqlite_deleteProject_throws_unguarded(db, id) == FALSE

Sqlite_deleteProject_throws(db, id) == id = "default"

Sqlite_deleteProject_result(db, id) == id \in db.projects

Sqlite_deleteProject(db, id) ==
  IF id \notin db.projects THEN db
  ELSE LET bs == BoardsOfProject(db, id)
           d1 == CascadeNodes(db, NodesOfBoards(db, bs))
       IN [d1 EXCEPT !.boards = Restrict(d1.boards, DOMAIN d1.boards \ bs),
                     !.projects = @ \ {id}]

\* createBoard(id, name, projectId = 'default', slug?): PRIMARY KEY(id) and the
\* unique index on (project_id, slug).
BoardSlug(id, name, slug) ==
  IF slug # UndefStr /\ slug # << >> THEN slug
  ELSE IF Slugify(name) # << >> THEN Slugify(name)
  ELSE IdChars(id)

Sqlite_createBoard_throws(db, id, name, projectId, slug) ==
  \/ id \in DOMAIN db.boards
  \/ \E b \in DOMAIN db.boards :
       /\ db.boards[b].project_id = projectId
       /\ db.boards[b].slug = BoardSlug(id, name, slug)

Sqlite_createBoard(db, id, name, projectId, slug) ==
  [db EXCEPT !.boards = db.boards @@ (id :>
     [id |-> id, name |-> name, slug |-> BoardSlug(id, name, slug), project_id |-> projectId])]

\* deleteBoard: throws for 'default', false for a missing board, otherwise one
\* transaction: context_chain rows, edges, nodes of the board, the board row.
Sqlite_deleteBoard_throws(db, id) == id = "default"

Sqlite_deleteBoard_result(db, id) == id \in DOMAIN db.boards

\* As Sqlite_deleteBoard, but the edges of the board's nodes are left behind.
Sqlite_deleteBoard_keepsEdges(db, id) ==
  IF id \notin DOMAIN db.boards THEN db
  ELSE LET d1 == CascadeNodes(db, NodesOfBoards(db, {id}))
       IN [d1 EXCEPT !.boards = Restrict(d1.boards, DOMAIN d1.boards \ {id}),
                     !.edges = db.edges]

Sqlite_deleteBoard(db, id) ==
  IF id \notin DOMAIN db.boards THEN db
  ELSE LET d1 == CascadeNodes(db, NodesOfBoards(db, {id}))
       IN [d1 EXCEPT !.boards = Restrict(d1.boards, DOMAIN d1.boards \ {id})]

\* -------------------------------------------------------- LanceDBManager

\* table.add of one VectorContext row; boardId defaults to 'default'.
Lance_addContext(v, context) ==
  v (+) SetToBag({[nodeId  |-> context.nodeId,
                   boardId |-> IF context.boardId = UNDEF THEN "default" ELSE context.boardId,
                   text    |-> context.text,
                   source  |-> context.source]})

BagSelect(v, Keep(_)) == [r \in {x \in DOMAIN v : Keep(x)} |-> v[r]]

Lance_getContextsForNode(v, nodeId) == BagSelect(v, LAMBDA r : r.nodeId = nodeId)

Lance_deleteNodeContexts(v, nodeId) == BagSelect(v, LAMBDA r : r.nodeId # nodeId)

Lance_deleteBoardContexts(v, boardId) == BagSelect(v, LAMBDA r : r.boardId # boardId)

\* As LanceOutcomes, but a call may reject whether or not the index is enabled.
LanceOutcomes_alwaysFallible == {TRUE, FALSE}

\* How an awaited LanceDBManager call can end: TRUE (resolved) or FALSE
\* (rejected: the embedding provider or the table failed).  A disabled index
\* returns at once and never rejects.
LanceOutcomes == IF enabled THEN {TRUE, FALSE} ELSE {TRUE}

\* -------------------------------------------------------- DatabaseManager

NoFrame == [op |-> "none", id |-> NULL, arg |-> NoRow, node |-> NoRow,
            boardId |-> NULL, pre |-> NoRow]

NoResult == [op |-> "none", id |-> NULL, status |-> "none", value |-> NoRow]

Res(op, id, status, value) == [op |-> op, id |-> id, status |-> status, value |-> value]

Ev(event, data, boardId) == [event |-> event, data |-> data, boardId |-> boardId]

\* The row (or rows) of the store an event is about.
EntityState(db, ev) ==
  CASE ev.event \in {"node_created", "node_updated", "node_deleted"} ->
         <<Sqlite_getNode(db, ev.data.id)>>
    [] ev.event = "context_added" ->
         <<Sqlite_getNode(db, ev.data.node_id), Sqlite_getContextForNode(db, ev.data.node_id)>>
    [] ev.event \in {"edge_created", "edge_deleted"} ->
         <<Sqlite_getEdge(db, ev.data.id)>>
    [] OTHER ->
         <<IF ev.data.id \in DOMAIN db.boards THEN db.boards[ev.data.id] ELSE NoRow>>

\* A payload in flight is marked once a later write changes its entity.
Supersede(msgs, db, db2) ==
  {[m EXCEPT !.superseded = @ \/ EntityState(db, m.payload) # EntityState(db2, m.payload)] :
     m \in msgs}

\* emitMutation: this.emit('mutation', payload) runs the listeners at once; the
\* listener of the MCP server hands the payload to notifier.publish.
EmitMutation(c, evs, db2) ==
  /\ emitted' = [emitted EXCEPT ![c] = (IF pc[c] = "idle" THEN << >> ELSE @) \o evs]
  /\ inflight' = IF subscribed
                 THEN Supersede(inflight, sqlite, db2)
                        \cup {[payload |-> evs[i], superseded |-> FALSE] : i \in 1..Len(evs)}
                 ELSE inflight

\* One step of caller c: the store and index after it, the events it emits,
\* where the call stands after it.
Step(c, db2, vec2, evs, pc2, frame2, result2) ==
  /\ sqlite' = db2
  /\ vec' = vec2
  /\ EmitMutation(c, evs, db2)
  /\ pc' = [pc EXCEPT ![c] = pc2]
  /\ frame' = [frame EXCEPT ![c] = frame2]
  /\ result' = [result EXCEPT ![c] = result2]
  /\ calls' = IF pc[c] = "idle" /\ result2.op \notin {"getInheritedContext", "getConversationPath", "getNode"}
              THEN calls + 1 ELSE calls
  /\ UNCHANGED <<enabled, subscribed, limit, delivery, manager>>

\* The call returns (or throws): its promise settles with `res`.
Return(c, db2, vec2, evs, res) == Step(c, db2, vec2, evs, "done", NoFrame, res)

Throw(c, db2, vec2, op, id) == Return(c, db2, vec2, << >>, Res(op, id, "error", NoRow))

Await(c, db2, pc2, frame2) ==
  Step(c, db2, vec, << >>, pc2, frame2, [NoResult EXCEPT !.op = frame2.op])

\* The caller takes the settled result and is ready for its next call.
Ack(c) ==
  /\ pc[c] = "done"
  /\ pc' = [pc EXCEPT ![c] = "idle"]
  /\ result' = [result EXCEPT ![c] = NoResult]
  /\ emitted' = [emitted EXCEPT ![c] = << >>]
  /\ UNCHANGED <<sqlite, vec, enabled, frame, subscribed, inflight, calls, limit, delivery,
               manager>>

Active == {d \in Callers : pc[d] \notin {"idle", "done"}}

\* A caller may begin a call when it is idle and the model's bounds leave room
\* for the event the call may emit.
CanBegin(c) ==
  /\ pc[c] = "idle"
  /\ calls < limit
  /\ subscribed => Cardinality(inflight) + Cardinality(Active) < MaxInflight

\* Room for the row a call may add to the index.
CanIndex == BagCardinality(vec) + Cardinality(Active) < MaxVec

\* As DM_createNode, but the event is emitted before the index is updated.
DM_createNode_emitsFirst(c, node) ==
  /\ CanBegin(c)
  /\ node.context # << >> => CanIndex
  /\ LET boardId == IF node.board_id = UNDEF THEN "default" ELSE node.board_id
         spec == [node EXCEPT !.board_id = boardId]
         db2 == Sqlite_createNode(sqlite, spec)
         createdNode == db2.nodes[node.id]
     IN IF Sqlite_createNode_throws(sqlite, spec)
        THEN Throw(c, sqlite, vec, "createNode", node.id)
        ELSE IF node.context # << >>
        THEN Step(c, db2, vec, <<Ev("node_created", createdNode, boardId)>>,
                  "createNode_addContext",
                  [op |-> "createNode", id |-> node.id, arg |-> node, node |-> createdNode,
                   boardId |-> boardId, pre |-> sqlite],
                  [NoResult EXCEPT !.op = "createNode"])
        ELSE Return(c, db2, vec, <<Ev("node_created", createdNode, boardId)>>,
                    Res("createNode", node.id, "ok", createdNode))

\* createNode, up to the await of lancedb.addContext (or to the end when no
\* context was given).
DM_createNode(c, node) ==
  /\ CanBegin(c)
  /\ node.context # << >> => CanIndex
  /\ LET boardId == IF node.board_id = UNDEF THEN "default" ELSE node.board_id
         spec == [node EXCEPT !.board_id = boardId]
         db2 == Sqlite_createNode(sqlite, spec)
         createdNode == db2.nodes[node.id]
     IN IF Sqlite_createNode_throws(sqlite, spec)
        THEN Throw(c, sqlite, vec, "createNode", node.id)
        ELSE IF node.context # << >>
        THEN Await(c, db2, "createNode_addContext",
                   [op |-> "createNode", id |-> node.id, arg |-> node, node |-> createdNode,
                    boardId |-> boardId, pre |-> sqlite])
        ELSE Return(c, db2, vec, <<Ev("node_created", createdNode, boardId)>>,
                    Res("createNode", node.id, "ok", createdNode))

\* As DM_createNode_addContext, but the event carries no board of its own.
DM_createNode_addContext_noBoard(c) ==
  /\ pc[c] = "createNode_addContext"
  /\ \E ok \in LanceOutcomes :
       LET f == frame[c]
       IN IF ok
          THEN Return(c, sqlite,
                      IF enabled
                      THEN Lance_addContext(vec, [nodeId |-> f.id, boardId |-> f.boardId,
                                                  text |-> f.arg.context, source |-> "user"])
                      ELSE vec,
                      <<Ev("node_created", f.node, "default")>>,
                      Res("createNode", f.id, "ok", f.node))
          ELSE Throw(c, sqlite, vec, "createNode", f.id)

\* createNode, from the end of lancedb.addContext on.
DM_createNode_addContext(c) ==
  /\ pc[c] = "createNode_addContext"
  /\ \E ok \in LanceOutcomes :
       LET f == frame[c]
       IN IF ok
          THEN Return(c, sqlite,
                      IF enabled
                      THEN Lance_addContext(vec, [nodeId |-> f.id, boardId |-> f.boardId,
                                                  text |-> f.arg.context, source |-> "user"])
                      ELSE vec,
                      <<Ev("node_created", f.node, f.boardId)>>,
                      Res("createNode", f.id, "ok", f.node))
          ELSE Throw(c, sqlite, vec, "createNode", f.id)

\* updateNode, up to the await of lancedb.getContextsForNode (or to the end
\* when the index is not touched).
DM_updateNode(c, id, updates) ==
  /\ CanBegin(c)
  /\ updates.context \notin {UndefStr, << >>} => CanIndex
  /\ LET db2 == Sqlite_updateNode(sqlite, id, updates)
         node == Sqlite_getNode(db2, id)
     IN IF Sqlite_updateNode_throws(sqlite, id, updates)
        THEN Throw(c, sqlite, vec, "updateNode", id)
        ELSE IF updates.context \notin {UndefStr, << >>} /\ node # NoRow
        THEN Await(c, db2, "updateNode_getContexts",
                   [op |-> "updateNode", id |-> id, arg |-> updates, node |-> node,
                    boardId |-> node.board_id, pre |-> sqlite])
        ELSE IF node # NoRow
        THEN Return(c, db2, vec, <<Ev("node_updated", node, node.board_id)>>,
                    Res("updateNode", id, "ok", node))
        ELSE Return(c, db2, vec, << >>, Res("updateNode", id, "absent", NoRow))

\* updateNode, from the end of lancedb.getContextsForNode to the next await.
DM_updateNode_getContexts(c) ==
  /\ pc[c] = "updateNode_getContexts"
  /\ \E ok \in LanceOutcomes :
       LET oldContexts == IF enabled THEN Lance_getContextsForNode(vec, frame[c].id)
                          ELSE EmptyBag
       IN IF ~ok THEN Throw(c, sqlite, vec, "updateNode", frame[c].id)
          ELSE IF BagCardinality(oldContexts) > 0
          THEN Await(c, sqlite, "updateNode_deleteContexts", frame[c])
          ELSE Await(c, sqlite, "updateNode_addContext", frame[c])

\* updateNode, from the end of lancedb.deleteNodeContexts to the next await.
DM_updateNode_deleteContexts(c) ==
  /\ pc[c] = "updateNode_deleteContexts"
  /\ \E ok \in LanceOutcomes :
       IF ~ok THEN Throw(c, sqlite, vec, "updateNode", frame[c].id)
       ELSE Step(c, sqlite,
                 IF enabled THEN Lance_deleteNodeContexts(vec, frame[c].id) ELSE vec,
                 << >>, "updateNode_addContext", frame[c],
                 [NoResult EXCEPT !.op = "updateNode"])

\* updateNode, from the end of lancedb.addContext on.  The call passes no
\* boardId.
DM_updateNode_addContext(c) ==
  /\ pc[c] = "updateNode_addContext"
  /\ \E ok \in LanceOutcomes :
       LET f == frame[c]
       IN IF ~ok THEN Throw(c, sqlite, vec, "updateNode", f.id)
          ELSE Return(c, sqlite,
                      IF enabled
                      THEN Lance_addContext(vec, [nodeId |-> f.id, boardId |-> UNDEF,
                                                  text |-> f.arg.context, source |-> "user"])
                      ELSE vec,
                      <<Ev("node_updated", f.node, f.node.board_id)>>,
                      Res("updateNode", f.id, "ok", f.node))

\* As DM_deleteNode, but node_deleted is emitted before the DELETE.
DM_deleteNode_notifiesFirst(c, id) ==
  /\ CanBegin(c)
  /\ LET node == Sqlite_getNode(sqlite, id)
         boardId == IF node # NoRow THEN node.board_id ELSE "default"
     IN Step(c, sqlite, vec,
             IF node # NoRow THEN <<Ev("node_deleted", [id |-> id], boardId)>> ELSE << >>,
             "deleteNode_deleteContexts",
             [op |-> "deleteNode", id |-> id, arg |-> NoRow, node |-> node,
              boardId |-> boardId, pre |-> sqlite],
             [NoResult EXCEPT !.op = "deleteNode"])

\* deleteNode, up to the await of lancedb.deleteNodeContexts.
DM_deleteNode(c, id) ==
  /\ CanBegin(c)
  /\ LET node == Sqlite_getNode(sqlite, id)
         boardId == IF node # NoRow THEN node.board_id ELSE "default"
     IN Await(c, sqlite, "deleteNode_deleteContexts",
              [op |-> "deleteNode", id |-> id, arg |-> NoRow, node |-> node,
               boardId |-> boardId, pre |-> sqlite])

\* deleteNode, from the end of lancedb.deleteNodeContexts on.
DM_deleteNode_deleteContexts(c) ==
  /\ pc[c] = "deleteNode_deleteContexts"
  /\ \E ok \in LanceOutcomes :
       LET f == frame[c]
           success == Sqlite_deleteNode_result(sqlite, f.id)
       IN IF ~ok THEN Throw(c, sqlite, vec, "deleteNode", f.id)
          ELSE Return(c, Sqlite_deleteNode(sqlite, f.id),
                      IF enabled THEN Lance_deleteNodeContexts(vec, f.id) ELSE vec,
                      IF success THEN <<Ev("node_deleted", [id |-> f.id], f.boardId)>> ELSE << >>,
                      Res("deleteNode", f.id, IF success THEN "true" ELSE "false", NoRow))

\* createEdge: the INSERT, then the board of the source node, then the event.
DM_createEdge(c, edge) ==
  /\ CanBegin(c)
  /\ IF Sqlite_createEdge_throws(sqlite, edge)
     THEN Throw(c, sqlite, vec, "createEdge", edge.id)
     ELSE LET db2 == Sqlite_createEdge(sqlite, edge)
              sourceNode == Sqlite_getNode(db2, edge.source_id)
              boardId == IF sourceNode # NoRow THEN sourceNode.board_id ELSE "default"
          IN Return(c, db2, vec, <<Ev("edge_created", edge, boardId)>>,
                    Res("createEdge", edge.id, "ok", edge))

\* As DM_deleteEdge, but the edge and its source node are read after the DELETE.
DM_deleteEdge_lookupAfter(c, id) ==
  /\ CanBegin(c)
  /\ LET db2 == Sqlite_deleteEdge(sqlite, id)
         edge == Sqlite_getEdge(db2, id)
         sourceNode == IF edge # NoRow THEN Sqlite_getNode(db2, edge.source_id) ELSE NoRow
         boardId == IF sourceNode # NoRow THEN sourceNode.board_id ELSE "default"
         success == Sqlite_deleteEdge_result(sqlite, id)
     IN Return(c, db2, vec,
               IF success THEN <<Ev("edge_deleted", [id |-> id], boardId)>> ELSE << >>,
               Res("deleteEdge", id, IF success THEN "true" ELSE "false", NoRow))

\* deleteEdge: the edge and its source node are read before the DELETE.
DM_deleteEdge(c, id) ==
  /\ CanBegin(c)
  /\ LET edge == Sqlite_getEdge(sqlite, id)
         sourceNode == IF edge # NoRow THEN Sqlite_getNode(sqlite, edge.source_id) ELSE NoRow
         boardId == IF sourceNode # NoRow THEN sourceNode.board_id ELSE "default"
         success == Sqlite_deleteEdge_result(sqlite, id)
     IN Return(c, Sqlite_deleteEdge(sqlite, id), vec,
               IF success THEN <<Ev("edge_deleted", [id |-> id], boardId)>> ELSE << >>,
               Res("deleteEdge", id, IF success THEN "true" ELSE "false", NoRow))

\* addContext, up to the await of lancedb.addContext.
DM_addContext(c, nodeId, text, source) ==
  /\ CanBegin(c)
  /\ CanIndex
  /\ Len(sqlite.chain) < MaxChain
  /\ NodeExists(sqlite, nodeId) => Len(sqlite.nodes[nodeId].context) + 1 + Len(text) <= MaxCtx
  /\ LET entry == [node_id |-> nodeId, context_entry |-> text, source |-> source]
     IN IF Sqlite_addContextEntry_throws(sqlite, entry)
        THEN Throw(c, sqlite, vec, "addContext", nodeId)
        ELSE Await(c, Sqlite_addContextEntry(sqlite, entry), "addContext_addContext",
                   [op |-> "addContext", id |-> nodeId, arg |-> entry, node |-> NoRow,
                    boardId |-> NULL, pre |-> sqlite])

\* As DM_addContext_addContext, but the context is appended to the node as
\* it was read before the await.
DM_addContext_addContext_staleRead(c) ==
  /\ pc[c] = "addContext_addContext"
  /\ \E ok \in LanceOutcomes :
       LET f == frame[c]
           text == f.arg.context_entry
           vec2 == IF enabled
                   THEN Lance_addContext(vec, [nodeId |-> f.id, boardId |-> UNDEF,
                                               text |-> text, source |-> f.arg.source])
                   ELSE vec
           node == Sqlite_getNode(f.pre, f.id)
           newContext == IF node.context # << >> THEN node.context \o <<SEP>> \o text ELSE text
       IN IF ~ok THEN Throw(c, sqlite, vec, "addContext", f.id)
          ELSE IF node # NoRow
          THEN Return(c, Sqlite_updateNode(sqlite, f.id, [NoUpdates EXCEPT !.context = newContext]),
                      vec2,
                      <<Ev("context_added",
                           [node_id |-> f.id, text |-> text, source |-> f.arg.source],
                           node.board_id)>>,
                      Res("addContext", f.id, "ok", NoRow))
          ELSE Return(c, sqlite, vec2, << >>, Res("addContext", f.id, "ok", NoRow))

\* As DM_addContext_addContext, but the text replaces the prior context.
DM_addContext_addContext_overwrites(c) ==
  /\ pc[c] = "addContext_addContext"
  /\ \E ok \in LanceOutcomes :
       LET f == frame[c]
           text == f.arg.context_entry
           vec2 == IF enabled
                   THEN Lance_addContext(vec, [nodeId |-> f.id, boardId |-> UNDEF,
                                               text |-> text, source |-> f.arg.source])
                   ELSE vec
           node == Sqlite_getNode(sqlite, f.id)
           newContext == text
       IN IF ~ok THEN Throw(c, sqlite, vec, "addContext", f.id)
          ELSE IF node # NoRow
          THEN Return(c, Sqlite_updateNode(sqlite, f.id, [NoUpdates EXCEPT !.context = newContext]),
                      vec2,
                      <<Ev("context_added",
                           [node_id |-> f.id, text |-> text, source |-> f.arg.source],
                           node.board_id)>>,
                      Res("addContext", f.id, "ok", NoRow))
          ELSE Return(c, sqlite, vec2, << >>, Res("addContext", f.id, "ok", NoRow))

\* addContext, from the end of lancedb.addContext on: the node is read again
\* and its context rewritten.
DM_addContext_addContext(c) ==
  /\ pc[c] = "addContext_addContext"
  /\ \E ok \in LanceOutcomes :
       LET f == frame[c]
           text == f.arg.context_entry
           vec2 == IF enabled
                   THEN Lance_addContext(vec, [nodeId |-> f.id, boardId |-> UNDEF,
                                               text |-> text, source |-> f.arg.source])
                   ELSE vec
           node == Sqlite_getNode(sqlite, f.id)
           newContext == IF node.context # << >> THEN node.context \o <<SEP>> \o text ELSE text
       IN IF ~ok THEN Throw(c, sqlite, vec, "addContext", f.id)
          ELSE IF node # NoRow
          THEN Return(c, Sqlite_updateNode(sqlite, f.id, [NoUpdates EXCEPT !.context = newContext]),
                      vec2,
                      <<Ev("context_added",
                           [node_id |-> f.id, text |-> text, source |-> f.arg.source],
                           node.board_id)>>,
                      Res("addContext", f.id, "ok", NoRow))
          ELSE Return(c, sqlite, vec2, << >>, Res("addContext", f.id, "ok", NoRow))

\* branchNode, up to the await of lancedb.addContext (or to the end when the
\* child inherits no context).
DM_branchNode(c, parentId, newNodeData) ==
  /\ CanBegin(c)
  /\ CanIndex
  /\ Len(Sqlite_getInheritedContext(sqlite, parentId)) <= MaxCtx
  /\ IF ~NodeExists(sqlite, parentId)
     THEN Return(c, sqlite, vec, << >>, Res("branchNode", newNodeData.id, "absent", NoRow))
     ELSE LET spec == Sqlite_branchNode_spec(sqlite, parentId, newNodeData)
              db2 == Sqlite_createNode(sqlite, spec)
              childNode == db2.nodes[newNodeData.id]
          IN IF Sqlite_createNode_throws(sqlite, spec)
             THEN Throw(c, sqlite, vec, "branchNode", newNodeData.id)
             ELSE IF childNode.context # << >>
             THEN Await(c, db2, "branchNode_addContext",
                        [op |-> "branchNode", id |-> newNodeData.id, arg |-> newNodeData,
                         node |-> childNode, boardId |-> childNode.board_id, pre |-> sqlite])
             ELSE Return(c, db2, vec, <<Ev("node_created", childNode, childNode.board_id)>>,
                         Res("branchNode", newNodeData.id, "ok", childNode))

\* branchNode, from the end of lancedb.addContext on.  The call passes no
\* boardId.
DM_branchNode_addContext(c) ==
  /\ pc[c] = "branchNode_addContext"
  /\ \E ok \in LanceOutcomes :
       LET f == frame[c]
       IN IF ~ok THEN Throw(c, sqlite, vec, "branchNode", f.id)
          ELSE Return(c, sqlite,
                      IF enabled
                      THEN Lance_addContext(vec, [nodeId |-> f.id, boardId |-> UNDEF,
                                                  text |-> f.node.context, source |-> "agent"])
                      ELSE vec,
                      <<Ev("node_created", f.node, f.node.board_id)>>,
                      Res("branchNode", f.id, "ok", f.node))

\* createBoard(id, name): the store's defaults for project and slug.
DM_createBoard(c, id, name) ==
  /\ CanBegin(c)
  /\ IF Sqlite_createBoard_throws(sqlite, id, name, "default", UndefStr)
     THEN Throw(c, sqlite, vec, "createBoard", id)
     ELSE LET db2 == Sqlite_createBoard(sqlite, id, name, "default", UndefStr)
          IN Return(c, db2, vec, <<Ev("board_created", db2.boards[id], id)>>,
                    Res("createBoard", id, "ok", db2.boards[id]))

\* The viewports a canvas may report: x, y, zoom.
Viewports == {<<0, 0, 1>>}

\* UPDATE boards SET viewport_x, viewport_y, viewport_zoom WHERE id = ?.  The
\* three columns are null until then: a board row carries a viewport only
\* once one has been stored.
Sqlite_updateBoardViewport(db, boardId, viewport) ==
  IF boardId \notin DOMAIN db.boards THEN db
  ELSE LET row == db.boards[boardId]
       IN [db EXCEPT !.boards[boardId] =
             [f \in DOMAIN row \cup {"viewport"} |->
                IF f = "viewport" THEN viewport ELSE row[f]]]

\* updateBoardViewport: the UPDATE and nothing else; it returns no value.
DM_updateBoardViewport(c, boardId, viewport) ==
  /\ CanBegin(c)
  /\ Return(c, Sqlite_updateBoardViewport(sqlite, boardId, viewport), vec, << >>,
            Res("updateBoardViewport", boardId, "ok", NoRow))

\* deleteBoard, up to the await of lancedb.deleteBoardContexts.
DM_deleteBoard(c, id) ==
  /\ CanBegin(c)
  /\ Await(c, sqlite, "deleteBoard_deleteContexts",
           [op |-> "deleteBoard", id |-> id, arg |-> NoRow, node |-> NoRow,
            boardId |-> id, pre |-> sqlite])

\* deleteBoard, from the end of lancedb.deleteBoardContexts on.
DM_deleteBoard_deleteContexts(c) ==
  /\ pc[c] = "deleteBoard_deleteContexts"
  /\ \E ok \in LanceOutcomes :
       LET f == frame[c]
           vec2 == IF enabled THEN Lance_deleteBoardContexts(vec, f.id) ELSE vec
           success == Sqlite_deleteBoard_result(sqlite, f.id)
       IN IF ~ok THEN Throw(c, sqlite, vec, "deleteBoard", f.id)
          ELSE IF Sqlite_deleteBoard_throws(sqlite, f.id)
          THEN Throw(c, sqlite, vec2, "deleteBoard", f.id)
          ELSE Return(c, Sqlite_deleteBoard(sqlite, f.id), vec2,
                      IF success THEN <<Ev("board_deleted", [id |-> f.id], f.id)>> ELSE << >>,
                      Res("deleteBoard", f.id, IF success THEN "true" ELSE "false", NoRow))

\* getInheritedContext: a read.
DM_getInheritedContext(c, nodeId) ==
  /\ pc[c] = "idle"
  /\ Return(c, sqlite, vec, << >>,
            Res("getInheritedContext", nodeId, "ok",
                [text  |-> Sqlite_getInheritedContext(sqlite, nodeId),
                 steps |-> Sqlite_getInheritedContext_walk(sqlite, nodeId).steps,
                 ended |-> ~InheritLoopRuns(sqlite, Sqlite_getInheritedContext_walk(sqlite, nodeId))]))

\* One iteration of the while loop of getConversationPath.
PathLoopRuns(db, w) == w.cur # NULL /\ w.cur \notin w.visited

PathLoopBody(db, w) ==
  LET currentNode == db.nodes[w.cur]
  IN [cur      |-> IF currentNode.parent_id # NULL /\ NodeExists(db, currentNode.parent_id)
                   THEN currentNode.parent_id ELSE NULL,
      visited  |-> w.visited \cup {w.cur},
      contexts |-> <<currentNode>> \o w.contexts,
      steps    |-> w.steps + 1]

RECURSIVE PathLoop(_, _, _)
PathLoop(db, w, fuel) ==
  IF PathLoopRuns(db, w) /\ fuel > 0
  THEN PathLoop(db, PathLoopBody(db, w), fuel - 1)
  ELSE w

getConversationPath_walk(db, nodeId) ==
  PathLoop(db, WalkFrom(IF NodeExists(db, nodeId) THEN nodeId ELSE NULL), WalkFuel(db))

DM_getConversationPath(c, nodeId) ==
  /\ pc[c] = "idle"
  /\ Return(c, sqlite, vec, << >>,
            Res("getConversationPath", nodeId, "ok",
                [path  |-> getConversationPath_walk(sqlite, nodeId).contexts,
                 steps |-> getConversationPath_walk(sqlite, nodeId).steps,
                 ended |-> ~PathLoopRuns(sqlite, getConversationPath_walk(sqlite, nodeId))]))

\* The store's project operations (SQLiteDB, called on the store itself).
Store_createProject(c, id) ==
  /\ CanBegin(c)
  /\ IF Sqlite_createProject_throws(sqlite, id)
     THEN Throw(c, sqlite, vec, "createProject", id)
     ELSE Return(c, Sqlite_createProject(sqlite, id), vec, << >>,
                 Res("createProject", id, "ok", NoRow))

Store_deleteProject(c, id) ==
  /\ CanBegin(c)
  /\ IF Sqlite_deleteProject_throws(sqlite, id)
     THEN Throw(c, sqlite, vec, "deleteProject", id)
     ELSE Return(c, Sqlite_deleteProject(sqlite, id), vec, << >>,
                 Res("deleteProject", id,
                     IF Sqlite_deleteProject_result(sqlite, id) THEN "true" ELSE "false", NoRow))

\* new SQLiteDB(path): the constructor opens the file and runs initSchema; an
\* error of a statement leaves the constructor as an exception.
Store_construct(c) ==
  /\ CanBegin(c)
  /\ \E order \in RowOrders(Sqlite_initSchema_rows(sqlite)) :
       LET r == Sqlite_initSchema(sqlite, order)
       IN IF r.error # "none"
          THEN Throw(c, r.db, vec, "initSchema", NULL)
          ELSE Return(c, r.db, vec, << >>, Res("initSchema", NULL, "ok", NoRow))

\* SQLiteDB.createBoard called on the store with a project of the caller's
\* choice (as getOrCreateBoard does).
Store_createBoard(c, id, name, projectId) ==
  /\ CanBegin(c)
  /\ IF Sqlite_createBoard_throws(sqlite, id, name, projectId, UndefStr)
     THEN Throw(c, sqlite, vec, "sqlite.createBoard", id)
     ELSE Return(c, Sqlite_createBoard(sqlite, id, name, projectId, UndefStr), vec, << >>,
                 Res("sqlite.createBoard", id, "ok", NoRow))

\* The times CURRENT_TIMESTAMP may give: a write is stamped with a time no
\* earlier than any stamp already stored.
Times(db) == {t \in 0..MaxClock : \A n \in DOMAIN db.updated_at : db.updated_at[n] <= t}

\* created_at and updated_at DEFAULT CURRENT_TIMESTAMP: the new row is stamped.
Store_createNode(c, node) ==
  /\ CanBegin(c)
  /\ IF Sqlite_createNode_throws(sqlite, node)
     THEN Throw(c, sqlite, vec, "sqlite.createNode", node.id)
     ELSE \E t \in Times(sqlite) :
            LET db2 == Sqlite_createNode(sqlite, node)
            IN Return(c, [db2 EXCEPT !.updated_at = @ @@ (node.id :> t)], vec, << >>,
                      Res("sqlite.createNode", node.id, "ok", db2.nodes[node.id]))

\* SQLiteDB.updateNode: with no field it returns getNode(id); otherwise the
\* UPDATE of the provided fields and of updated_at, then getNode(id).
Store_updateNode(c, id, updates) ==
  /\ CanBegin(c)
  /\ IF Sqlite_updateNode_throws(sqlite, id, updates)
     THEN Throw(c, sqlite, vec, "sqlite.updateNode", id)
     ELSE \E t \in Times(sqlite) :
            LET db2 == Sqlite_updateNode(sqlite, id, updates)
                db3 == IF HasFields(updates) /\ NodeExists(sqlite, id)
                       THEN [db2 EXCEPT !.updated_at[id] = t]
                       ELSE db2
            IN Return(c, db3, vec, << >>,
                      Res("sqlite.updateNode", id,
                          IF NodeExists(db3, id) THEN "ok" ELSE "absent",
                          Sqlite_getNode(db3, id)))

Store_deleteBoard(c, id) ==
  /\ CanBegin(c)
  /\ IF Sqlite_deleteBoard_throws(sqlite, id)
     THEN Throw(c, sqlite, vec, "sqlite.deleteBoard", id)
     ELSE Return(c, Sqlite_deleteBoard(sqlite, id), vec, << >>,
                 Res("sqlite.deleteBoard", id,
                     IF Sqlite_deleteBoard_result(sqlite, id) THEN "true" ELSE "false", NoRow))

\* ------------------------------------------------- HttpNotificationClient

\* How the fetch of publish can end.  publish catches every failure.
FetchOutcomes == {"ok", "error_response", "network_error", "timeout"}

\* The publish that the 'mutation' listener started and did not await
\* settles; nobody holds its promise.
Notifier_publish_settles(m, outcome) ==
  /\ m \in inflight
  /\ inflight' = inflight \ {m}
  /\ UNCHANGED <<sqlite, vec, enabled, pc, frame, result, emitted, subscribed, calls, limit,
                 delivery, manager>>

NoDelivery == [outcome |-> "none", promise |-> "pending"]

\* fetch rejects on a network failure and when AbortSignal.timeout(5000)
\* fires; a response with an error status resolves it.
FetchRejects(outcome) == outcome \in {"network_error", "timeout"}

\* As Publish_promise, without the catch block.
Publish_promise_uncaught(outcome) == IF FetchRejects(outcome) THEN "rejected" ELSE "resolved"

\* The state publish's promise settles in: the rejection of fetch is caught
\* by the empty catch block, and the method then runs to its end.
Publish_promise(outcome) == IF FetchRejects(outcome) THEN "resolved" ELSE "resolved"

\* As Notifier_publish, but a delivery that fails is reported to the writer.
Notifier_publish_failsWriter(m, outcome) ==
  /\ m \in inflight
  /\ inflight' = inflight \ {m}
  /\ delivery' = [outcome |-> outcome, promise |-> Publish_promise(outcome)]
  /\ result' = IF FetchRejects(outcome)
               THEN [c \in Callers |-> [result[c] EXCEPT !.status = "error"]]
               ELSE result
  /\ UNCHANGED <<sqlite, vec, enabled, pc, frame, emitted, subscribed, calls, limit, manager>>

\* publish settles, seen by a holder of its promise.
Notifier_publish(m, outcome) ==
  /\ m \in inflight
  /\ inflight' = inflight \ {m}
  /\ delivery' = [outcome |-> outcome, promise |-> Publish_promise(outcome)]
  /\ UNCHANGED <<sqlite, vec, enabled, pc, frame, result, emitted, subscribed, calls, limit,
               manager>>

\* ----------------------------------------------------------------- inputs

\* The node ids a call may name: an id in use, or the first id not in use
\* (ids are opaque keys chosen by the caller; one id not in use stands for
\* all of them).
RECURSIVE FirstFree(_, _)
FirstFree(used, ids) ==
  IF ids = << >> THEN {}
  ELSE IF ids[1] \notin used THEN {ids[1]}
  ELSE FirstFree(used, Tail(ids))

NodeIdOrder == <<"n1", "n2", "n3">>

IdInputs == DOMAIN sqlite.nodes \cup FirstFree(DOMAIN sqlite.nodes, NodeIdOrder)

NodeInputs ==
  {n \in [id : IdInputs, type : NodeTypes, content : Contents,
          context : {<< >>} \cup {<<CreateWord(i)>> : i \in NodeIds},
          parent_id : IdInputs \cup {NULL}, board_id : {UNDEF, "b1"}] :
     /\ n.parent_id # n.id
     /\ n.context \in {<< >>, <<CreateWord(n.id)>>}}

\* updateNode is called with no field or with one field.
UpdateInputs ==
  {NoUpdates}
    \cup {[NoUpdates EXCEPT !.content = x] : x \in Contents}
    \cup {[NoUpdates EXCEPT !.context = x] : x \in {<< >>} \cup {<<w>> : w \in EditWords}}
    \cup {[NoUpdates EXCEPT !.type = x] : x \in NodeTypes}
    \cup {[NoUpdates EXCEPT !.parent_id = x] : x \in {NULL} \cup IdInputs}

BranchInputs == [id : IdInputs, type : NodeTypes, content : Contents]

EdgeInputs == [id : EdgeIds, source_id : IdInputs, target_id : IdInputs, label : {NULL}]

\* -------------------------------------------------- Remote Control Surface

\* The tools whose inputSchema has a `required` list.
ToolsWithRequired ==
  {"create_board", "delete_board", "create_node", "get_node", "update_node",
   "delete_node", "create_edge", "branch_conversation", "add_context", "get_context",
   "search_context", "get_conversation_path", "move_node", "create_review",
   "get_review_summary", "get_list_items", "update_list_item_status", "add_list_item",
   "move_to_list"}

\* inputSchema.required of each tool.
DeclaredRequired(tool) ==
  CASE tool = "create_board" -> <<"name">>
    [] tool = "delete_board" -> <<"id">>
    [] tool = "create_node" -> <<"type", "content">>
    [] tool = "get_node" -> <<"id">>
    [] tool = "update_node" -> <<"id">>
    [] tool = "delete_node" -> <<"id">>
    [] tool = "create_edge" -> <<"source_id", "target_id">>
    [] tool = "branch_conversation" -> <<"parent_id", "type", "content">>
    [] tool = "add_context" -> <<"node_id", "text", "source">>
    [] tool = "get_context" -> <<"node_id">>
    [] tool = "search_context" -> <<"query">>
    [] tool = "get_conversation_path" -> <<"node_id">>
    [] tool = "move_node" -> <<"id", "x", "y">>
    [] tool = "create_review" -> <<"title", "content">>
    [] tool = "get_review_summary" -> <<"node_id">>
    [] tool = "get_list_items" -> <<"list_id">>
    [] tool = "update_list_item_status" -> <<"item_id", "status">>
    [] tool = "add_list_item" -> <<"list_id", "text">>
    [] tool = "move_to_list" -> <<"node_id", "target_list_id">>
    [] OTHER -> << >>

\* The list the tool's case of the handler passes to validateArgs.
ValidatedArgs(tool) ==
  CASE tool = "create_board" -> <<"name">>
    [] tool = "delete_board" -> <<"id">>
    [] tool = "create_node" -> <<"type", "content">>
    [] tool = "get_node" -> <<"id">>
    [] tool = "update_node" -> <<"id">>
    [] tool = "delete_node" -> <<"id">>
    [] tool = "create_edge" -> <<"source_id", "target_id">>
    [] tool = "branch_conversation" -> <<"parent_id", "type", "content">>
    [] tool = "add_context" -> <<"node_id", "text", "source">>
    [] tool = "get_context" -> <<"node_id">>
    [] tool = "search_context" -> <<"query">>
    [] tool = "get_conversation_path" -> <<"node_id">>
    [] tool = "move_node" -> <<"id", "x", "y">>
    [] tool = "create_review" -> <<"title", "content">>
    [] tool = "get_review_summary" -> <<"node_id">>
    [] tool = "get_list_items" -> <<"list_id">>
    [] tool = "update_list_item_status" -> <<"item_id", "status">>
    [] tool = "add_list_item" -> <<"list_id", "text">>
    [] tool = "move_to_list" -> <<"node_id", "target_list_id">>
    [] OTHER -> << >>

\* The arguments whose values are texts, held as sequences of words.
TextKeys == {"name", "context", "text"}

\* args[key] === undefined
IsUndefined(args, key) ==
  IF key \in TextKeys THEN args[key] = UndefStr ELSE args[key] = UNDEF

\* null given for a text.
NullStr == <<NULL>>

\* args[key] === null
IsNull(args, key) ==
  IF key \in TextKeys THEN args[key] = NullStr ELSE args[key] = NULL

\* As validateArgs_missing, were only undefined tested for.
validateArgs_missing_undefinedOnly(args, required) ==
  SelectSeq(required, LAMBDA key : IsUndefined(args, key))

\* validateArgs: required.filter(key => args[key] === undefined || args[key] === null)
validateArgs_missing(args, required) ==
  SelectSeq(required, LAMBDA key : IsUndefined(args, key) \/ IsNull(args, key))

\* if (err) return err: the handler returns the validation error and has
\* called nothing on db.
Tool_invalid(c, tool, missing) ==
  /\ CanBegin(c)
  /\ Return(c, sqlite, vec, << >>, Res(tool, NULL, "invalid", [missing |-> missing]))

\* JSON.stringify(content): the text of the content object (with the
\* position create_node may have given it).
JSON_stringify(content) == CASE content = "c0" -> "{c0}" [] OTHER -> "{}"

\* x || fallback for an optional argument.
OrElse(x, fallback) == IF x \in {UNDEF, NULL} THEN fallback ELSE x

\* uuidv4(): an id no node has.
FreshNodeId == FirstFree(DOMAIN sqlite.nodes, NodeIdOrder)

\* An id a caller may name that is neither a node nor the next uuid.
GhostNodeId == FirstFree(DOMAIN sqlite.nodes \cup FreshNodeId, NodeIdOrder)

\* The node ids a request may give for a parent: a node, or no node.
ParentArgs == DOMAIN sqlite.nodes \cup GhostNodeId

Tool_create_board(c, a) ==
  LET missing == validateArgs_missing(a, ValidatedArgs("create_board"))
  IN IF missing # << >> THEN Tool_invalid(c, "create_board", missing)
     ELSE \E uuid \in BoardIds \ DOMAIN sqlite.boards :
            DM_createBoard(c, OrElse(a.id, uuid), a.name)

Tool_delete_board(c, a) ==
  LET missing == validateArgs_missing(a, ValidatedArgs("delete_board"))
  IN IF missing # << >> THEN Tool_invalid(c, "delete_board", missing)
     ELSE DM_deleteBoard(c, a.id)

\* create_node: the id is a uuid; context || '', parent_id || null,
\* board_id || 'default'.
Tool_create_node(c, a) ==
  LET missing == validateArgs_missing(a, ValidatedArgs("create_node"))
  IN IF missing # << >> THEN Tool_invalid(c, "create_node", missing)
     ELSE \E uuid \in FreshNodeId :
            DM_createNode(c, [id |-> uuid, type |-> a.type,
                              content |-> JSON_stringify(a.content),
                              context |-> IF a.context = UndefStr THEN << >> ELSE a.context,
                              parent_id |-> OrElse(a.parent_id, NULL),
                              board_id |-> OrElse(a.board_id, "default")])

\* DatabaseManager.getNode: a read.
DM_getNode(c, id) ==
  /\ pc[c] = "idle"
  /\ Return(c, sqlite, vec, << >>,
            Res("getNode", id, IF NodeExists(sqlite, id) THEN "ok" ELSE "absent",
                Sqlite_getNode(sqlite, id)))

Tool_get_node(c, a) ==
  LET missing == validateArgs_missing(a, ValidatedArgs("get_node"))
  IN IF missing # << >> THEN Tool_invalid(c, "get_node", missing)
     ELSE DM_getNode(c, a.id)

\* update_node: content and context go into the updates when truthy,
\* parent_id when it is not undefined.
Tool_update_node(c, a) ==
  LET missing == validateArgs_missing(a, ValidatedArgs("update_node"))
  IN IF missing # << >> THEN Tool_invalid(c, "update_node", missing)
     ELSE DM_updateNode(c, a.id,
            [content |-> IF a.content = UNDEF THEN UNDEF ELSE JSON_stringify(a.content),
             context |-> IF a.context = << >> THEN UndefStr ELSE a.context,
             type |-> UNDEF,
             parent_id |-> a.parent_id])

Tool_delete_node(c, a) ==
  LET missing == validateArgs_missing(a, ValidatedArgs("delete_node"))
  IN IF missing # << >> THEN Tool_invalid(c, "delete_node", missing)
     ELSE DM_deleteNode(c, a.id)

Tool_create_edge(c, a) ==
  LET missing == validateArgs_missing(a, ValidatedArgs("create_edge"))
  IN IF missing # << >> THEN Tool_invalid(c, "create_edge", missing)
     ELSE \E uuid \in EdgeIds \ DOMAIN sqlite.edges :
            DM_createEdge(c, [id |-> uuid, source_id |-> a.source_id,
                              target_id |-> a.target_id, label |-> OrElse(a.label, NULL)])

\* branch_conversation: parent_id, type and content are read from the
\* arguments; board_id is not.
Tool_branch_conversation(c, a) ==
  LET missing == validateArgs_missing(a, ValidatedArgs("branch_conversation"))
  IN IF missing # << >> THEN Tool_invalid(c, "branch_conversation", missing)
     ELSE \E uuid \in FreshNodeId :
            DM_branchNode(c, a.parent_id,
                          [id |-> uuid, type |-> a.type, content |-> JSON_stringify(a.content)])

Tool_add_context(c, a) ==
  LET missing == validateArgs_missing(a, ValidatedArgs("add_context"))
  IN IF missing # << >> THEN Tool_invalid(c, "add_context", missing)
     ELSE DM_addContext(c, a.node_id, a.text, a.source)

\* get_context with include_inherited left at its default, true.
Tool_get_context(c, a) ==
  LET missing == validateArgs_missing(a, ValidatedArgs("get_context"))
  IN IF missing # << >> THEN Tool_invalid(c, "get_context", missing)
     ELSE DM_getInheritedContext(c, a.node_id)

Tool_get_conversation_path(c, a) ==
  LET missing == validateArgs_missing(a, ValidatedArgs("get_conversation_path"))
  IN IF missing # << >> THEN Tool_invalid(c, "get_conversation_path", missing)
     ELSE DM_getConversationPath(c, a.node_id)

\* What the handler returns for the way the call on db ended: the kind of
\* text and whether isError is set.
Tool_response(res) ==
  CASE res.status = "invalid" ->
         [kind |-> "missing_arguments", isError |-> TRUE, names |-> res.value.missing]
    [] res.status = "error" ->
         [kind |-> "error_message", isError |-> TRUE, names |-> << >>]
    [] res.op \in {"getNode", "updateNode", "branchNode"} /\ res.status = "absent" ->
         [kind |-> "not_found", isError |-> TRUE, names |-> << >>]
    [] res.op \in {"deleteNode", "deleteBoard"} /\ res.status = "false" ->
         [kind |-> "not_found", isError |-> FALSE, names |-> << >>]
    [] OTHER ->
         [kind |-> "result", isError |-> FALSE, names |-> << >>]

\* The arguments of a request: every key of the tool, given or not.
CreateBoardArgs == [name : BoardNames \cup {UndefStr, NullStr}, id : {UNDEF, "b1"}]

DeleteBoardArgs == [id : BoardIds \cup {UNDEF, NULL}]

CreateNodeArgs ==
  [type : NodeTypes \cup {UNDEF}, content : Contents \cup {NULL},
   context : {UndefStr} \cup {<<CreateWord(i)>> : i \in FreshNodeId},
   parent_id : {UNDEF} \cup ParentArgs, board_id : {UNDEF, "b1"}]

NodeIdArgs == [id : IdInputs \cup {UNDEF, NULL}]

UpdateNodeArgs ==
  {a \in [id : IdInputs \cup {UNDEF}, content : {UNDEF} \cup Contents,
          context : {UndefStr, << >>} \cup {<<w>> : w \in EditWords},
          parent_id : {UNDEF, NULL} \cup IdInputs] :
     Cardinality({k \in {"content", "context", "parent_id"} :
                    ~IsUndefined(a, k)}) <= 1}

CreateEdgeArgs ==
  [source_id : IdInputs \cup {UNDEF}, target_id : IdInputs \cup {NULL}, label : {UNDEF}]

BranchArgs ==
  [parent_id : ParentArgs \cup {UNDEF}, type : NodeTypes \cup {NULL},
   content : Contents \cup {UNDEF}, board_id : {UNDEF, "b1"}]

AddContextArgs ==
  [node_id : IdInputs \cup {UNDEF}, text : {<<w>> : w \in AddWords} \cup {UndefStr},
   source : Sources \cup {NULL}]

NodeRefArgs == [node_id : IdInputs \cup {UNDEF, NULL}]

\* ---------------------------------------------------------- specification

InitWith(en, sub, lim) ==
  /\ sqlite = Sqlite_init
  /\ vec = EmptyBag
  /\ enabled = en
  /\ pc = [c \in Callers |-> "idle"]
  /\ frame = [c \in Callers |-> NoFrame]
  /\ result = [c \in Callers |-> NoResult]
  /\ emitted = [c \in Callers |-> << >>]
  /\ subscribed = sub
  /\ inflight = {}
  /\ calls = 0
  /\ limit = lim
  /\ delivery = NoDelivery
  /\ manager = OpenManager

\* A DatabaseManager with no listener attached.
Init == \E en \in BOOLEAN : InitWith(en, FALSE, MaxCalls)

Call(c) ==
  \/ \E node \in NodeInputs : DM_createNode(c, node)
  \/ DM_createNode_addContext(c)
  \/ \E id \in IdInputs, updates \in UpdateInputs : DM_updateNode(c, id, updates)
  \/ DM_updateNode_getContexts(c)
  \/ DM_updateNode_deleteContexts(c)
  \/ DM_updateNode_addContext(c)
  \/ \E id \in IdInputs : DM_deleteNode(c, id)
  \/ DM_deleteNode_deleteContexts(c)
  \/ \E edge \in EdgeInputs : DM_createEdge(c, edge)
  \/ \E id \in EdgeIds : DM_deleteEdge(c, id)
  \/ \E id \in IdInputs, w \in AddWords, source \in Sources : DM_addContext(c, id, <<w>>, source)
  \/ DM_addContext_addContext(c)
  \/ \E parentId \in IdInputs, d \in BranchInputs : DM_branchNode(c, parentId, d)
  \/ DM_branchNode_addContext(c)
  \/ \E id \in BoardIds, name \in BoardNames : DM_createBoard(c, id, name)
  \/ \E id \in BoardIds : DM_deleteBoard(c, id)
  \/ DM_deleteBoard_deleteContexts(c)
  \/ \E id \in IdInputs : DM_getInheritedContext(c, id)
  \/ \E id \in IdInputs : DM_getConversationPath(c, id)
  \/ Ack(c)

\* One caller: every call runs to its end before the next begins.
Next == Call("c1")

Spec == Init /\ [][Next]_vars

\* The MCP server: db.on('mutation', payload => notifier.publish(payload)).
\* publish is not awaited; its fetch settles at some later time.
InitNotify == \E en \in BOOLEAN : InitWith(en, TRUE, MaxNotifyCalls)

NextNotify ==
  \/ Call("c1")
  \/ \E m \in inflight, outcome \in FetchOutcomes : Notifier_publish_settles(m, outcome)

SpecNotify == InitNotify /\ [][NextNotify]_vars

\* The context graph: the node, context and branch calls and the two walks,
\* every node on the default board.
GraphNodeInputs == {n \in NodeInputs : n.board_id = UNDEF}

InitGraph == \E en \in BOOLEAN : InitWith(en, FALSE, MaxGraphCalls)

NextGraph ==
  \/ \E node \in GraphNodeInputs : DM_createNode("c1", node)
  \/ DM_createNode_addContext("c1")
  \/ \E id \in IdInputs, updates \in UpdateInputs : DM_updateNode("c1", id, updates)
  \/ DM_updateNode_getContexts("c1")
  \/ DM_updateNode_deleteContexts("c1")
  \/ DM_updateNode_addContext("c1")
  \/ \E id \in IdInputs : DM_deleteNode("c1", id)
  \/ DM_deleteNode_deleteContexts("c1")
  \/ \E id \in IdInputs, w \in AddWords, source \in Sources : DM_addContext("c1", id, <<w>>, source)
  \/ DM_addContext_addContext("c1")
  \/ \E parentId \in IdInputs, d \in BranchInputs : DM_branchNode("c1", parentId, d)
  \/ DM_branchNode_addContext("c1")
  \/ \E id \in IdInputs : DM_getInheritedContext("c1", id)
  \/ \E id \in IdInputs : DM_getConversationPath("c1", id)
  \/ Ack("c1")

SpecGraph == InitGraph /\ [][NextGraph]_vars

\* The notifier with its deliveries observed: calls that emit one event each,
\* and the publishes they start.  AbortSignal.timeout(5000) bounds every
\* fetch, so a publish that is pending does settle.
PublishNodeInputs == {n \in GraphNodeInputs : n.context = << >> /\ n.parent_id = NULL}

InitPublish == \E en \in BOOLEAN : InitWith(en, TRUE, MaxPublishCalls)

PublishSettles == \E m \in inflight, outcome \in FetchOutcomes : Notifier_publish(m, outcome)

NextPublish ==
  \/ \E node \in PublishNodeInputs : DM_createNode("c1", node)
  \/ \E id \in IdInputs : DM_deleteNode("c1", id)
  \/ DM_deleteNode_deleteContexts("c1")
  \/ \E id \in BoardIds, name \in BoardNames : DM_createBoard("c1", id, name)
  \/ Ack("c1")
  \/ PublishSettles

SpecPublish == InitPublish /\ [][NextPublish]_vars /\ WF_vars(PublishSettles)

\* The store with its projects: project and board rows made and removed on
\* the store itself, and nodes, parent links, edges and context entries
\* made through the manager.
StoreNodeInputs == {n \in NodeInputs : n.context = << >>}

ParentUpdates == {u \in UpdateInputs : u.parent_id # UNDEF}

InitStore == InitWith(FALSE, FALSE, MaxStoreCalls)

NextStore ==
  \/ \E id \in ProjectIds : Store_createProject("c1", id)
  \/ \E id \in ProjectIds : Store_deleteProject("c1", id)
  \/ \E id \in BoardIds, name \in BoardNames, projectId \in ProjectIds :
       Store_createBoard("c1", id, name, projectId)
  \/ \E id \in BoardIds : Store_deleteBoard("c1", id)
  \/ \E node \in StoreNodeInputs : DM_createNode("c1", node)
  \/ \E id \in IdInputs, updates \in ParentUpdates : DM_updateNode("c1", id, updates)
  \/ \E id \in IdInputs : DM_deleteNode("c1", id)
  \/ DM_deleteNode_deleteContexts("c1")
  \/ \E edge \in EdgeInputs : DM_createEdge("c1", edge)
  \/ \E id \in IdInputs, w \in AddWords, source \in Sources : DM_addContext("c1", id, <<w>>, source)
  \/ DM_addContext_addContext("c1")
  \/ Ack("c1")

SpecStore == InitStore /\ [][NextStore]_vars

\* Every operation of the manager that writes, with the events of each call.
InitEvents == \E en \in BOOLEAN : InitWith(en, FALSE, MaxEventCalls)

NextEvents ==
  \/ \E node \in NodeInputs : DM_createNode("c1", node)
  \/ DM_createNode_addContext("c1")
  \/ \E id \in IdInputs, updates \in UpdateInputs : DM_updateNode("c1", id, updates)
  \/ DM_updateNode_getContexts("c1")
  \/ DM_updateNode_deleteContexts("c1")
  \/ DM_updateNode_addContext("c1")
  \/ \E id \in IdInputs : DM_deleteNode("c1", id)
  \/ DM_deleteNode_deleteContexts("c1")
  \/ \E edge \in EdgeInputs : DM_createEdge("c1", edge)
  \/ \E id \in EdgeIds : DM_deleteEdge("c1", id)
  \/ \E id \in IdInputs, w \in AddWords, source \in Sources : DM_addContext("c1", id, <<w>>, source)
  \/ DM_addContext_addContext("c1")
  \/ \E parentId \in IdInputs, d \in BranchInputs : DM_branchNode("c1", parentId, d)
  \/ DM_branchNode_addContext("c1")
  \/ \E id \in BoardIds, name \in BoardNames : DM_createBoard("c1", id, name)
  \/ \E id \in BoardIds : DM_deleteBoard("c1", id)
  \/ DM_deleteBoard_deleteContexts("c1")
  \/ \E id \in BoardIds, viewport \in Viewports : DM_updateBoardViewport("c1", id, viewport)
  \/ Ack("c1")

SpecEvents == InitEvents /\ [][NextEvents]_vars

\* The node rows of the store with their updated_at stamps.
StampedNodeInputs == {n \in NodeInputs : n.board_id = UNDEF}

\* The new store, with the (empty) column of stamps of its node rows.
Sqlite_init_stamped ==
  [f \in DOMAIN Sqlite_init \cup {"updated_at"} |->
     IF f = "updated_at" THEN << >> ELSE Sqlite_init[f]]

InitUpdate ==
  /\ sqlite = Sqlite_init_stamped
  /\ vec = EmptyBag
  /\ enabled = FALSE
  /\ pc = [c \in Callers |-> "idle"]
  /\ frame = [c \in Callers |-> NoFrame]
  /\ result = [c \in Callers |-> NoResult]
  /\ emitted = [c \in Callers |-> << >>]
  /\ subscribed = FALSE
  /\ inflight = {}
  /\ calls = 0
  /\ limit = MaxUpdateCalls
  /\ delivery = NoDelivery
  /\ manager = OpenManager

NextUpdate ==
  \/ \E node \in StampedNodeInputs : Store_createNode("c1", node)
  \/ \E id \in IdInputs, updates \in UpdateInputs : Store_updateNode("c1", id, updates)
  \/ Ack("c1")

SpecUpdate == InitUpdate /\ [][NextUpdate]_vars

\* Projects made, filled and removed: boards in a project, nodes on them with
\* parent links, edges and context entries across projects.
InitProjects == InitWith(FALSE, FALSE, MaxProjectCalls)

NextProjects ==
  \/ Store_createProject("c1", "p1")
  \/ \E id \in ProjectIds : Store_deleteProject("c1", id)
  \/ \E name \in BoardNames : Store_createBoard("c1", "b1", name, "p1")
  \/ \E node \in StoreNodeInputs : DM_createNode("c1", node)
  \/ \E edge \in EdgeInputs : DM_createEdge("c1", edge)
  \/ \E id \in IdInputs, w \in AddWords, source \in Sources : DM_addContext("c1", id, <<w>>, source)
  \/ DM_addContext_addContext("c1")
  \/ Ack("c1")

SpecProjects == InitProjects /\ [][NextProjects]_vars

\* A file of an earlier version, opened any number of times, and board calls
\* through a store that a constructor has returned.
LegacyBoardIds == {"main", "b1"}

LegacyName == <<"P", "l", "a", "n">>

\* The version that had nodes only, without board_id.
LegacyNodesOnly(ns) ==
  [NewFile EXCEPT
     !.schema = {"nodes", "edges", "context_chain"},
     !.nodes = [n \in ns |-> [id |-> n, type |-> "conversation", content |-> "c0",
                              context |-> << >>, parent_id |-> NULL]]]

\* The version that had boards(id, name): the default board and `ids`.
LegacyBoards(ids) ==
  [NewFile EXCEPT
     !.schema = {"boards", "nodes", "nodes.board_id", "edges", "context_chain", "settings"},
     !.boards = [b \in ids \cup {"default"} |->
                   [id |-> b, name |-> IF b = "default" THEN DefaultBoardName ELSE LegacyName]]]

\* That version after a run of initSchema that was killed between the two
\* ALTER TABLE statements and the UPDATEs that follow them.
LegacyBoardsInterrupted(ids) ==
  [LegacyBoards(ids) EXCEPT
     !.schema = @ \cup {"boards.slug", "boards.project_id"},
     !.boards = [b \in ids \cup {"default"} |->
                   [id |-> b, name |-> IF b = "default" THEN DefaultBoardName ELSE LegacyName,
                    slug |-> << >>, project_id |-> "default"]]]

LegacyFiles ==
  {NewFile}
    \cup {LegacyNodesOnly(ns) : ns \in {{}, {"n1"}}}
    \cup {LegacyBoards(ids) : ids \in SUBSET LegacyBoardIds}
    \cup {LegacyBoardsInterrupted(ids) : ids \in SUBSET LegacyBoardIds}

InitMigrate ==
  /\ sqlite \in LegacyFiles
  /\ vec = EmptyBag
  /\ enabled = FALSE
  /\ pc = [c \in Callers |-> "idle"]
  /\ frame = [c \in Callers |-> NoFrame]
  /\ result = [c \in Callers |-> NoResult]
  /\ emitted = [c \in Callers |-> << >>]
  /\ subscribed = FALSE
  /\ inflight = {}
  /\ calls = 0
  /\ limit = MaxMigrateCalls
  /\ delivery = NoDelivery
  /\ manager = OpenManager

Opened_createBoard(c, id, name, projectId) ==
  /\ SchemaComplete(sqlite)
  /\ Store_createBoard(c, id, name, projectId)

Opened_deleteBoard(c, id) ==
  /\ SchemaComplete(sqlite)
  /\ Store_deleteBoard(c, id)

NextMigrate ==
  \/ Store_construct("c1")
  \/ \E id \in BoardIds \cup LegacyBoardIds, name \in BoardNames, projectId \in ProjectIds :
       Opened_createBoard("c1", id, name, projectId)
  \/ \E id \in BoardIds \cup LegacyBoardIds : Opened_deleteBoard("c1", id)
  \/ Ack("c1")

SpecMigrate == InitMigrate /\ [][NextMigrate]_vars

\* The Remote Control Surface: one request at a time, each handled to its end.
InitTools == \E en \in BOOLEAN : InitWith(en, FALSE, MaxToolCalls)

NextTools ==
  \/ \E a \in CreateBoardArgs : Tool_create_board("c1", a)
  \/ \E a \in DeleteBoardArgs : Tool_delete_board("c1", a)
  \/ DM_deleteBoard_deleteContexts("c1")
  \/ \E a \in CreateNodeArgs : Tool_create_node("c1", a)
  \/ DM_createNode_addContext("c1")
  \/ \E a \in NodeIdArgs : Tool_get_node("c1", a)
  \/ \E a \in UpdateNodeArgs : Tool_update_node("c1", a)
  \/ DM_updateNode_getContexts("c1")
  \/ DM_updateNode_deleteContexts("c1")
  \/ DM_updateNode_addContext("c1")
  \/ \E a \in NodeIdArgs : Tool_delete_node("c1", a)
  \/ DM_deleteNode_deleteContexts("c1")
  \/ \E a \in CreateEdgeArgs : Tool_create_edge("c1", a)
  \/ \E a \in BranchArgs : Tool_branch_conversation("c1", a)
  \/ DM_branchNode_addContext("c1")
  \/ \E a \in AddContextArgs : Tool_add_context("c1", a)
  \/ DM_addContext_addContext("c1")
  \/ \E a \in NodeRefArgs : Tool_get_context("c1", a)
  \/ \E a \in NodeRefArgs : Tool_get_conversation_path("c1", a)
  \/ Ack("c1")

SpecTools == InitTools /\ [][NextTools]_vars

\* Boards and what hangs on their nodes: nodes without a context of their own
\* on either board, edges, context entries, and the board calls.
BoardNodeInputs == {n \in NodeInputs : n.context = << >>}

InitBoards == \E en \in BOOLEAN : InitWith(en, FALSE, MaxBoardCalls)

NextBoards ==
  \/ \E node \in BoardNodeInputs : DM_createNode("c1", node)
  \/ \E edge \in EdgeInputs : DM_createEdge("c1", edge)
  \/ \E id \in IdInputs, w \in AddWords, source \in Sources : DM_addContext("c1", id, <<w>>, source)
  \/ DM_addContext_addContext("c1")
  \/ \E id \in BoardIds, name \in BoardNames : DM_createBoard("c1", id, name)
  \/ \E id \in BoardIds : DM_deleteBoard("c1", id)
  \/ DM_deleteBoard_deleteContexts("c1")
  \/ Ack("c1")

SpecBoards == InitBoards /\ [][NextBoards]_vars

\* ================================================================= claims

\* The call a step belongs to: <<operation, id it names>>, or <<"none", NULL>>
\* for a step that is no part of a call of caller c.
CallOf(c) ==
  IF pc[c] \notin {"idle", "done"} THEN <<frame[c].op, frame[c].id>>
  ELSE IF pc[c] = "idle" /\ pc'[c] = "done" THEN <<result'[c].op, result'[c].id>>
  ELSE IF pc[c] = "idle" /\ pc'[c] # "idle" THEN <<frame'[c].op, frame'[c].id>>
  ELSE <<"none", NULL>>

\* The store as it was when the call in progress began.
CallStart(c) == IF pc[c] \in {"idle", "done"} THEN sqlite ELSE frame[c].pre

\* The step on which a call of caller c returns or throws.
CallEnds(c) == pc[c] # "done" /\ pc'[c] = "done"

\* ---- C1

\* Node a was created as a root with context "alpha", b was branched from a,
\* and addContext(b, "beta", "user") was the only addContext call.
C1_Scenario(db, a, b) ==
  /\ a # b /\ NodeExists(db, a) /\ NodeExists(db, b)
  /\ db.nodes[a].parent_id = NULL
  /\ db.nodes[a].context = <<"alpha">>
  /\ db.nodes[b].parent_id = a
  /\ db.nodes[b].context = <<"alpha", SEP, "beta">>
  /\ db.chain = <<[node_id |-> b, context_entry |-> <<"beta">>, source |-> "user"]>>

\* C1: after createNode of A with context "alpha", branchNode(A) giving B and
\* addContext(B, "beta", "user"), getInheritedContext(B) returns exactly
\* "alpha\n\nbeta": every contribution once, root first, nothing duplicated.
C1_EndToEndInheritance ==
  \A c \in Callers : \A a \in NodeIds : \A b \in NodeIds :
    (/\ pc[c] = "done"
     /\ result[c].op = "getInheritedContext"
     /\ result[c].id = b
     /\ C1_Scenario(sqlite, a, b))
    => result[c].value.text = <<"alpha", SEP, "beta">>

\* ---- C2

\* The parent chain of n, root first, followed for at most fuel links.
RECURSIVE ChainRootFirst(_, _, _)
ChainRootFirst(db, n, fuel) ==
  IF n = NULL \/ ~NodeExists(db, n) \/ fuel = 0 THEN << >>
  ELSE Append(ChainRootFirst(db, db.nodes[n].parent_id, fuel - 1), n)

\* The chain of n ends at a root without visiting a row twice, and every
\* parent it names exists.
AcyclicChain(db, n) ==
  LET ch == ChainRootFirst(db, n, WalkFuel(db))
  IN /\ NodeExists(db, n)
     /\ Len(ch) <= Cardinality(DOMAIN db.nodes)
     /\ db.nodes[ch[1]].parent_id = NULL

\* The non-empty own contexts of the rows of ch, in order, with one separator
\* between neighbours.
RECURSIVE OwnContextsJoined(_, _)
OwnContextsJoined(db, ch) ==
  IF ch = << >> THEN << >>
  ELSE LET own  == db.nodes[ch[1]].context
           rest == OwnContextsJoined(db, Tail(ch))
       IN IF own = << >> THEN rest
          ELSE IF rest = << >> THEN own
          ELSE own \o <<SEP>> \o rest

WellSeparated(text) ==
  /\ text # << >> => text[1] # SEP /\ text[Len(text)] # SEP
  /\ \A i \in 1..(Len(text) - 1) : ~(text[i] = SEP /\ text[i + 1] = SEP)

\* C2: for a node with an acyclic parent chain, getInheritedContext returns
\* the own contexts of the chain's nodes, root first, empty ones skipped,
\* joined by "\n\n", with no leading, trailing or doubled separator.
C2_RootFirstJoin ==
  \A c \in Callers :
    (/\ pc[c] = "done"
     /\ result[c].op = "getInheritedContext"
     /\ AcyclicChain(sqlite, result[c].id))
    => /\ result[c].value.text =
            OwnContextsJoined(sqlite, ChainRootFirst(sqlite, result[c].id, WalkFuel(sqlite)))
       /\ WellSeparated(result[c].value.text)

\* A chain of three rows, each with a context of its own, was read.
C2_Witness ==
  \E c \in Callers :
    /\ pc[c] = "done"
    /\ result[c].op = "getInheritedContext"
    /\ AcyclicChain(sqlite, result[c].id)
    /\ Len(ChainRootFirst(sqlite, result[c].id, WalkFuel(sqlite))) = 3
    /\ \A n \in DOMAIN sqlite.nodes : sqlite.nodes[n].context # << >>
    /\ Len(result[c].value.text) = 5

\* A chain with an empty context in the middle of it was read.
C2_WitnessSkip ==
  \E c \in Callers :
    /\ pc[c] = "done"
    /\ result[c].op = "getInheritedContext"
    /\ AcyclicChain(sqlite, result[c].id)
    /\ LET ch == ChainRootFirst(sqlite, result[c].id, WalkFuel(sqlite))
       IN /\ Len(ch) = 3
          /\ sqlite.nodes[ch[1]].context # << >>
          /\ sqlite.nodes[ch[2]].context = << >>
          /\ sqlite.nodes[ch[3]].context # << >>

\* ---- C3

\* C3: getInheritedContext and getConversationPath return for every node of
\* every parent graph that createNode and updateNode can build, two-node
\* cycles and a node that is its own parent included: the walk ends, after
\* no more iterations than there are rows.
C3_WalksTerminate ==
  \A c \in Callers :
    (pc[c] = "done" /\ result[c].op \in {"getInheritedContext", "getConversationPath"})
    => /\ result[c].value.ended
       /\ result[c].value.steps <= Cardinality(DOMAIN sqlite.nodes)

OnTwoCycle(db, n) ==
  /\ NodeExists(db, n)
  /\ db.nodes[n].parent_id \in DOMAIN db.nodes \ {n}
  /\ db.nodes[db.nodes[n].parent_id].parent_id = n

\* getInheritedContext returned for a node on a two-node cycle.
C3_Witness ==
  \E c \in Callers :
    /\ pc[c] = "done"
    /\ result[c].op = "getInheritedContext"
    /\ OnTwoCycle(sqlite, result[c].id)
    /\ result[c].value.steps = 2

\* getConversationPath returned for a node that is its own parent.
C3_WitnessSelf ==
  \E c \in Callers :
    /\ pc[c] = "done"
    /\ result[c].op = "getConversationPath"
    /\ NodeExists(sqlite, result[c].id)
    /\ sqlite.nodes[result[c].id].parent_id = result[c].id
    /\ Len(result[c].value.path) = 1

\* ---- C4

\* C4: once branchNode(P) has created D, no updateNode or addContext call on
\* another node (P and the ancestors of P among them) changes the context
\* column of D: it stays the value seeded when D was branched.
C4_Step ==
  \A c \in Callers : \A d \in DOMAIN sqlite.nodes :
    (/\ CallOf(c)[1] \in {"updateNode", "addContext"}
     /\ CallOf(c)[2] # d
     /\ d \in DOMAIN sqlite'.nodes)
    => sqlite'.nodes[d].context = sqlite.nodes[d].context

C4_SnapshotImmutable == [][C4_Step]_vars

\* P's context was rewritten after D had been branched from it, and D holds
\* what P had at branch time.
C4_Witness ==
  \E c \in Callers : \E p \in DOMAIN sqlite.nodes : \E d \in DOMAIN sqlite.nodes :
    /\ pc[c] = "done"
    /\ result[c].op = "updateNode" /\ result[c].status = "ok" /\ result[c].id = p
    /\ sqlite.nodes[p].context = <<"edited">>
    /\ sqlite.nodes[d].parent_id = p
    /\ sqlite.nodes[d].context = <<CreateWord(p)>>

\* ---- C5

\* The step on which deleteBoard(b) returns true.
DeleteBoardSucceeds(c, b) ==
  /\ CallEnds(c)
  /\ CallOf(c) = <<"deleteBoard", b>>
  /\ result'[c].status = "true"

\* Nothing of board b is left: no node on it, no edge with an endpoint that
\* was on it, no context entry of a node that was on it.
CascadeComplete(db, db2, b) ==
  LET onB == NodesOfBoards(db, {b})
  IN /\ \A n \in DOMAIN db2.nodes : db2.nodes[n].board_id # b
     /\ DOMAIN db2.nodes \cap onB = {}
     /\ \A e \in DOMAIN db2.edges :
          db2.edges[e].source_id \notin onB /\ db2.edges[e].target_id \notin onB
     /\ \A i \in 1..Len(db2.chain) : db2.chain[i].node_id \notin onB

\* C5 (as stated): after deleteBoard(B) succeeds for a non-default board B,
\* nothing of B can be found, and the default board row and every node on the
\* default board still exist unchanged.
C5_Original_Step ==
  \A c \in Callers : \A b \in BoardIds \ {"default"} :
    DeleteBoardSucceeds(c, b)
    => /\ CascadeComplete(sqlite, sqlite', b)
       /\ sqlite'.boards["default"] = sqlite.boards["default"]
       /\ \A n \in NodesOfBoards(sqlite, {"default"}) :
            n \in DOMAIN sqlite'.nodes /\ sqlite'.nodes[n] = sqlite.nodes[n]

C5_Original == [][C5_Original_Step]_vars

\* C5 (amended): after deleteBoard(B) succeeds for a non-default board B,
\* nothing of B can be found, the default board row is unchanged, and every
\* node on the default board still exists, unchanged but for a parent_id that
\* named a node on B, which is now null.
C5_Step ==
  \A c \in Callers : \A b \in BoardIds \ {"default"} :
    DeleteBoardSucceeds(c, b)
    => /\ CascadeComplete(sqlite, sqlite', b)
       /\ sqlite'.boards["default"] = sqlite.boards["default"]
       /\ \A n \in NodesOfBoards(sqlite, {"default"}) :
            /\ n \in DOMAIN sqlite'.nodes
            /\ sqlite'.nodes[n] =
                 IF sqlite.nodes[n].parent_id \in NodesOfBoards(sqlite, {b})
                 THEN [sqlite.nodes[n] EXCEPT !.parent_id = NULL]
                 ELSE sqlite.nodes[n]

C5_CascadeComplete == [][C5_Step]_vars

\* deleteBoard("b1") returned true and took n1 and n2 with it (node ids are
\* given out in order and no other call of these behaviours removes a node),
\* while n3, on the default board, is still there.
C5_Witness ==
  \E c \in Callers :
    /\ pc[c] = "done"
    /\ result[c].op = "deleteBoard" /\ result[c].id = "b1" /\ result[c].status = "true"
    /\ "b1" \notin DOMAIN sqlite.boards
    /\ DOMAIN sqlite.nodes = {"n3"}
    /\ sqlite.nodes["n3"].board_id = "default"

\* ---- C6

\* C6: deleteBoard('default') fails, and after the failed call nothing has
\* been deleted: the store's rows and the index's records of the default
\* board are unchanged, and no event was emitted.
C6_Step ==
  \A c \in Callers :
    (CallEnds(c) /\ CallOf(c) = <<"deleteBoard", "default">>)
    => /\ result'[c].status = "error"
       /\ sqlite' = CallStart(c)
       /\ BagSelect(vec', LAMBDA r : r.boardId = "default")
            = BagSelect(vec, LAMBDA r : r.boardId = "default")
       /\ emitted'[c] = << >>

C6_DefaultProtected == [][C6_Step]_vars

\* ---- C7

\* C7: a successful createNode emits exactly one node_created event, whose
\* data.id is the returned node's id and whose boardId is the returned node's
\* board_id; updateNode on an id that does not exist emits no event and
\* returns absent.
C7_EventsOfCreateAndUpdate ==
  \A c \in Callers :
    pc[c] = "done" =>
      /\ (result[c].op = "createNode" /\ result[c].status = "ok")
         => /\ Len(emitted[c]) = 1
            /\ emitted[c][1].event = "node_created"
            /\ emitted[c][1].data.id = result[c].value.id
            /\ emitted[c][1].boardId = result[c].value.board_id
      /\ (result[c].op = "updateNode" /\ ~NodeExists(sqlite, result[c].id))
         => /\ result[c].status = "absent"
            /\ emitted[c] = << >>

\* createNode with a context returned a node of board b1.
C7_Witness ==
  \E c \in Callers :
    /\ pc[c] = "done"
    /\ result[c].op = "createNode" /\ result[c].status = "ok"
    /\ result[c].value.board_id = "b1"
    /\ result[c].value.context # << >>
    /\ Len(emitted[c]) = 1

\* ---- C8

MutationOps == {"createNode", "updateNode", "addContext", "branchNode", "deleteNode", "deleteBoard"}

\* C8: a mutation of the Graph Manager that fails with an error, a failure of
\* the index while it is enabled included, leaves the store exactly as it was
\* before the call.
C8_Step ==
  \A c \in Callers :
    (CallEnds(c) /\ CallOf(c)[1] \in MutationOps /\ result'[c].status = "error")
    => sqlite' = CallStart(c)

C8_FailureAtomic == [][C8_Step]_vars

\* ---- C9

\* C9: an operation that throws, or that changes nothing (deleteNode,
\* deleteEdge, deleteBoard of a missing id, branchNode of a missing parent),
\* emits no event; an event is emitted only once the store write and the
\* index update of its operation have both completed, never while the call
\* still waits for the index.
C9_NoPartialSuccessEvents ==
  \A c \in Callers :
    /\ (pc[c] = "done" /\ result[c].status \in {"error", "absent", "false"})
       => emitted[c] = << >>
    /\ pc[c] \notin {"idle", "done"} => emitted[c] = << >>

\* createNode wrote its row, the index then failed, and no event was emitted.
C9_Witness ==
  \E c \in Callers :
    /\ pc[c] = "done"
    /\ result[c].op = "createNode" /\ result[c].status = "error"
    /\ enabled
    /\ DOMAIN sqlite.nodes = {result[c].id}
    /\ sqlite.nodes[result[c].id].context # << >>
    /\ emitted[c] = << >>

\* ---- C10

\* The store shows the write an event reports.
Reflects(db, ev) ==
  CASE ev.event \in {"node_created", "node_updated"} ->
         Sqlite_getNode(db, ev.data.id) = ev.data
    [] ev.event = "node_deleted" -> ~NodeExists(db, ev.data.id)
    [] ev.event = "context_added" ->
         /\ NodeExists(db, ev.data.node_id)
         /\ \E i \in 1..Len(db.chain) :
              db.chain[i] = [node_id |-> ev.data.node_id, context_entry |-> ev.data.text,
                             source |-> ev.data.source]
         /\ LET ctx == db.nodes[ev.data.node_id].context
            IN /\ Len(ctx) >= Len(ev.data.text)
               /\ SubSeq(ctx, Len(ctx) - Len(ev.data.text) + 1, Len(ctx)) = ev.data.text
    [] ev.event = "edge_created" -> Sqlite_getEdge(db, ev.data.id) = ev.data
    [] ev.event = "edge_deleted" -> ev.data.id \notin DOMAIN db.edges
    [] ev.event = "board_created" ->
         ev.data.id \in DOMAIN db.boards /\ db.boards[ev.data.id] = ev.data
    [] OTHER -> ev.data.id \notin DOMAIN db.boards

\* C10: an event is emitted and handed to the notifier only after the store
\* write of its operation: whenever an observer can receive the event of a
\* write to an entity, the store shows that write or a later write to the
\* entity.
C10_WriteBeforeNotify ==
  \A m \in inflight : m.superseded \/ Reflects(sqlite, m.payload)

\* Two events of one node are in flight: node_created, overtaken by a later
\* write, and the node_updated of that write.
C10_Witness ==
  \E m1 \in inflight : \E m2 \in inflight :
    /\ m1.payload.event = "node_created" /\ m1.superseded
    /\ m2.payload.event = "node_updated" /\ ~m2.superseded
    /\ m1.payload.data.id = m2.payload.data.id

\* ---- C11

\* C11: publish always completes in the end and never rejects or throws,
\* however the delivery ends (network error, timeout, nobody listening,
\* error response): no promise of publish is ever rejected, and whenever
\* publishes are pending there comes a time when none is.
C11_PublishNeverFails ==
  /\ [](delivery.promise # "rejected")
  /\ (inflight # {}) ~> (inflight = {})

\* A publish whose fetch failed on the network has settled, resolved.
C11_Witness == delivery.outcome = "network_error" /\ delivery.promise = "resolved"

\* ---- C12

\* The step by which a pending publish settles.
DeliverySettles == inflight' # inflight /\ inflight' \subseteq inflight

\* C12: notification is no part of an operation's success: a delivery that
\* settles, however it ends, changes neither the store nor the value a call
\* returned nor where a call stands; and a call returns without waiting for
\* the delivery of its event, which is still pending when the call ends.
C12_Step ==
  /\ DeliverySettles
     => /\ sqlite' = sqlite
        /\ result' = result
        /\ pc' = pc
        /\ emitted' = emitted
  /\ \A c \in Callers :
       CallEnds(c)
       => \A i \in 1..Len(emitted'[c]) :
            [payload |-> emitted'[c][i], superseded |-> FALSE] \in inflight'

C12_NotificationApart == [][C12_Step]_vars

\* A call has returned its node while an earlier delivery has timed out and
\* the delivery of its own event is still pending.
C12_Witness ==
  \E c \in Callers :
    /\ pc[c] = "done"
    /\ result[c].op = "createNode" /\ result[c].status = "ok"
    /\ delivery.outcome = "timeout"
    /\ [payload |-> emitted[c][1], superseded |-> FALSE] \in inflight

\* ---- C13

\* C13: with no embedding provider configured every index method is a
\* no-op that returns, and every operation of the Graph Manager does to the
\* store, returns and emits what it would without an index: the index stays
\* empty, a call that waits for the index goes on when the index returns, and
\* no call fails after such a wait but for an error of the store itself
\* (deleteBoard of the default board).
C13_Step ==
  ~enabled =>
    /\ vec' = EmptyBag
    /\ \A c \in Callers :
         (pc[c] \notin {"idle", "done"} /\ pc'[c] = "done")
         => \/ result'[c].status # "error"
            \/ CallOf(c) = <<"deleteBoard", "default">>

C14_ReferentialIntegrity ==
  /\ \A e \in DOMAIN sqlite.edges :
       NodeExists(sqlite, sqlite.edges[e].source_id) /\ NodeExists(sqlite, sqlite.edges[e].target_id)
  /\ \A n \in DOMAIN sqlite.nodes :
       sqlite.nodes[n].parent_id # NULL => NodeExists(sqlite, sqlite.nodes[n].parent_id)
  /\ \A i \in 1..Len(sqlite.chain) : NodeExists(sqlite, sqlite.chain[i].node_id)

\* A node that had a child and an edge to it has been deleted: the child is
\* still there, without parent and without edge.
C14_Witness ==
  \E c \in Callers :
    /\ pc[c] = "done"
    /\ result[c].op = "deleteNode" /\ result[c].status = "true"
    /\ DOMAIN sqlite.nodes = {"n2"}
    /\ sqlite.nodes["n2"].parent_id = NULL
    /\ DOMAIN sqlite.edges = {}
    /\ calls = MaxStoreCalls

\* ---- C17

\* C17: the default project and the default board exist in every reachable
\* state: no board or project call removes either.
C17_DefaultsExist ==
  /\ "default" \in sqlite.projects
  /\ "default" \in DOMAIN sqlite.boards

\* A call to delete the default project has failed.
C17_Witness ==
  \E c \in Callers :
    /\ pc[c] = "done"
    /\ result[c].op = "deleteProject" /\ result[c].id = "default"
    /\ result[c].status = "error"

\* ---- C15

\* The store after deleting node a from db, as the claim describes it: a is
\* gone with the edges that touch it and its context entries; every other row
\* is as it was, but for a parent_id of a, which is null.
OnlyNodeRemoved(db, after, a) ==
  /\ DOMAIN after.nodes = DOMAIN db.nodes \ {a}
  /\ \A n \in DOMAIN after.nodes :
       after.nodes[n] = IF db.nodes[n].parent_id = a
                        THEN [db.nodes[n] EXCEPT !.parent_id = NULL]
                        ELSE db.nodes[n]
  /\ DOMAIN after.edges = {e \in DOMAIN db.edges :
                             db.edges[e].source_id # a /\ db.edges[e].target_id # a}
  /\ \A e \in DOMAIN after.edges : after.edges[e] = db.edges[e]
  /\ after.chain = SelectSeq(db.chain, LAMBDA r : r.node_id # a)
  /\ after.boards = db.boards
  /\ after.projects = db.projects

C15_Step ==
  \A c \in Callers :
    (pc[c] = "deleteNode_deleteContexts" /\ pc'[c] = "done" /\ result'[c].status # "error")
      => /\ OnlyNodeRemoved(sqlite, sqlite', frame[c].id)
         /\ result'[c].status = "true" <=> NodeExists(sqlite, frame[c].id)

\* C15: deleteNode(a) removes a, the edges of which a is an end and a's
\* context entries, and nothing else: the nodes that had a as parent are still
\* there with their context, their parent_id now null; it returns true exactly
\* when a row was removed.
C15_DeleteNodeDetaches == [][C15_Step]_vars

\* A parent has been deleted; its child, which has a context entry of its own,
\* is still there with its context and no parent.
C15_Witness ==
  \E c \in Callers :
    /\ pc[c] = "done"
    /\ result[c].op = "deleteNode" /\ result[c].status = "true"
    /\ DOMAIN sqlite.nodes = {"n2"}
    /\ sqlite.nodes["n2"].parent_id = NULL
    /\ sqlite.nodes["n2"].context # << >>
    /\ Len(sqlite.chain) = 1

\* ---- C16

\* The step on which caller c begins createNode and the INSERT has been run.
CreateNodeBegins(c) == pc[c] = "idle" /\ pc'[c] # "idle" /\ CallOf(c)[1] = "createNode"

C16_Step ==
  \A c \in Callers :
    CreateNodeBegins(c) =>
      /\ \A n \in DOMAIN sqlite'.nodes \ DOMAIN sqlite.nodes :
           /\ sqlite'.nodes[n].parent_id # NULL => NodeExists(sqlite, sqlite'.nodes[n].parent_id)
           /\ sqlite'.nodes[n].board_id \in DOMAIN sqlite.boards
      /\ DOMAIN sqlite'.nodes = DOMAIN sqlite.nodes
           => /\ pc'[c] = "done" /\ result'[c].status = "error"
              /\ sqlite' = sqlite
              /\ emitted' = emitted

\* C16: createNode fails, creates no row and emits no event when the id is
\* already a node, when parent_id is not a node, or when board_id is not a
\* board: a row appears only with a new id, an existing parent and an existing
\* board, and a call that adds no row has thrown and changed nothing.
C16_CreateNodeConstraints == [][C16_Step]_vars

\* ---- C18

\* Every board has a slug that is not empty and that no other board of its
\* project has.
SlugsUnique(db) ==
  /\ \A b \in DOMAIN db.boards : db.boards[b].slug # << >>
  /\ ~HasDuplicateSlug(db)

\* C18: board slugs are non-empty and unique within their project in every
\* state of a store, the state a migration of a legacy file produces
\* included: no run of initSchema ends in an error, and whenever the boards
\* table has its slug column and no call is under way the slugs are unique.
C18_SlugsUnique ==
  \A c \in Callers :
    /\ result[c].op = "initSchema" => result[c].status # "error"
    /\ (result[c].op = "initSchema" \/ SchemaComplete(sqlite)) => SlugsUnique(sqlite)

\* ---- C19

C19_Step ==
  \A c \in Callers :
    (pc[c] = "idle" /\ pc'[c] = "done" /\ result'[c].op = "initSchema" /\ SchemaComplete(sqlite))
      => result'[c].status = "ok" /\ sqlite' = sqlite

\* C19: a run of initSchema on a file that a run of initSchema has already
\* brought to the current schema raises no error and leaves the schema and
\* every row as they were.
C19_IdempotentMigration == [][C19_Step]_vars

\* The second construction over a legacy file with board b1 has returned.
C19_Witness ==
  \E c \in Callers :
    /\ pc[c] = "done"
    /\ result[c].op = "initSchema" /\ result[c].status = "ok"
    /\ calls = 2
    /\ SchemaComplete(sqlite)
    /\ DOMAIN sqlite.boards = {"default", "b1"}
    /\ sqlite.boards["b1"].slug = <<"b", "1">>

\* A fresh file after initSchema is the store every other specification
\* starts from.
FreshFileIsInit ==
  \A f \in {"projects", "boards", "nodes", "edges", "chain"} :
    Sqlite_initSchema(NewFile, << >>).db[f] = Sqlite_init[f]

\* ---- C20

\* No call is suspended at an await: every operation begun has completed.
Quiescent == \A c \in Callers : pc[c] \in {"idle", "done"}

\* C20: with the index enabled, whenever every operation begun has completed,
\* every record of the index names a node that is in the store: none is left
\* for a deleted node or for a node of a deleted board.
C20_NoDrift ==
  (enabled /\ Quiescent) => \A r \in BagToSet(vec) : NodeExists(sqlite, r.nodeId)

\* ---- C21

\* C21: every record of the index carries the board of its node: the boardId
\* of a record whose node is in the store is that node's board_id, whichever
\* of createNode, updateNode, addContext and branchNode wrote it.
C21_IndexBoardScoped ==
  \A r \in BagToSet(vec) :
    NodeExists(sqlite, r.nodeId) => r.boardId = sqlite.nodes[r.nodeId].board_id

\* ---- C22

\* The step on which caller c's updateNode(id, updates) returns a node, where
\* updates carried a context: the call was suspended with the updates in its
\* frame, or it ran in one step and rewrote the context of the row.
UpdateNodeSetContext(c, id) ==
  /\ CallEnds(c)
  /\ CallOf(c) = <<"updateNode", id>>
  /\ result'[c].status = "ok"
  /\ IF pc[c] = "idle"
     THEN NodeExists(sqlite, id) /\ sqlite'.nodes[id].context # sqlite.nodes[id].context
     ELSE frame[c].arg.context # UndefStr

C22_Step ==
  \A c \in Callers, id \in NodeIds :
    (enabled /\ UpdateNodeSetContext(c, id))
      => LET entries == Lance_getContextsForNode(vec', id)
         IN /\ BagCardinality(entries) = 1
            /\ \A r \in BagToSet(entries) : r.text = sqlite'.nodes[id].context

\* C22: with the index enabled, when updateNode returns for an existing node
\* and the updates carried a context, the index holds exactly one entry of
\* that node and its text is the new context.
C22_ContextFullReplace == [][C22_Step]_vars

\* The same for a context that is not the empty string.
C22_NonEmptyStep ==
  \A c \in Callers, id \in NodeIds :
    (enabled /\ UpdateNodeSetContext(c, id) /\ sqlite'.nodes[id].context # << >>)
      => LET entries == Lance_getContextsForNode(vec', id)
         IN /\ BagCardinality(entries) = 1
            /\ \A r \in BagToSet(entries) : r.text = sqlite'.nodes[id].context

C22_NonEmptyReplace == [][C22_NonEmptyStep]_vars

\* ---- C23

C23_Step ==
  \A c \in Callers :
    (pc[c] = "deleteNode_deleteContexts" /\ pc'[c] = "done" /\ NodeExists(sqlite, frame[c].id))
      => /\ ~NodeExists(sqlite', frame[c].id)
         /\ Len(emitted'[c]) = 1
         /\ emitted'[c][1].event = "node_deleted"
         /\ emitted'[c][1].data = [id |-> frame[c].id]

\* C23: deleteNode of an existing node removes the node from the store and
\* emits node_deleted however lancedb.deleteNodeContexts ended, with a
\* rejection as well.
C23_DeleteNodeTolerant == [][C23_Step]_vars

\* ---- C24

\* The required arguments of the tool that the request leaves undefined or null.
C24_MissingOf(a, tool) ==
  SelectSeq(DeclaredRequired(tool), LAMBDA key : IsUndefined(a, key) \/ IsNull(a, key))

\* The request ended at once with the validation error naming `missing`, and
\* nothing was called on the Graph Manager: store, index and events are as
\* they were and no call on it began.
C24_Rejected(c, tool, missing) ==
  /\ result'[c] = Res(tool, NULL, "invalid", [missing |-> missing])
  /\ Tool_response(result'[c]) =
       [kind |-> "missing_arguments", isError |-> TRUE, names |-> missing]
  /\ pc'[c] = "done" /\ frame'[c] = NoFrame
  /\ sqlite' = sqlite /\ vec' = vec /\ emitted'[c] = << >> /\ inflight' = inflight

\* Claim C24: every tool that declares required arguments validates exactly
\* that list, and a request that leaves any of them undefined or null is
\* answered with the validation error naming the missing ones, with no read
\* or write on the Graph Manager.  A request is a step that takes the caller
\* out of idle.
C24_Step ==
  /\ \A tool \in ToolsWithRequired : ValidatedArgs(tool) = DeclaredRequired(tool)
  /\ (pc["c1"] = "idle" /\ pc'["c1"] # "idle") =>
      /\ \A a \in CreateBoardArgs :
           (C24_MissingOf(a, "create_board") # << >> /\ Tool_create_board("c1", a))
             => C24_Rejected("c1", "create_board", C24_MissingOf(a, "create_board"))
      /\ \A a \in DeleteBoardArgs :
           (C24_MissingOf(a, "delete_board") # << >> /\ Tool_delete_board("c1", a))
             => C24_Rejected("c1", "delete_board", C24_MissingOf(a, "delete_board"))
      /\ \A a \in CreateNodeArgs :
           (C24_MissingOf(a, "create_node") # << >> /\ Tool_create_node("c1", a))
             => C24_Rejected("c1", "create_node", C24_MissingOf(a, "create_node"))
      /\ \A a \in NodeIdArgs :
           (C24_MissingOf(a, "get_node") # << >> /\ Tool_get_node("c1", a))
             => C24_Rejected("c1", "get_node", C24_MissingOf(a, "get_node"))
      /\ \A a \in UpdateNodeArgs :
           (C24_MissingOf(a, "update_node") # << >> /\ Tool_update_node("c1", a))
             => C24_Rejected("c1", "update_node", C24_MissingOf(a, "update_node"))
      /\ \A a \in NodeIdArgs :
           (C24_MissingOf(a, "delete_node") # << >> /\ Tool_delete_node("c1", a))
             => C24_Rejected("c1", "delete_node", C24_MissingOf(a, "delete_node"))
      /\ \A a \in CreateEdgeArgs :
           (C24_MissingOf(a, "create_edge") # << >> /\ Tool_create_edge("c1", a))
             => C24_Rejected("c1", "create_edge", C24_MissingOf(a, "create_edge"))
      /\ \A a \in BranchArgs :
           (C24_MissingOf(a, "branch_conversation") # << >> /\ Tool_branch_conversation("c1", a))
             => C24_Rejected("c1", "branch_conversation", C24_MissingOf(a, "branch_conversation"))
      /\ \A a \in AddContextArgs :
           (C24_MissingOf(a, "add_context") # << >> /\ Tool_add_context("c1", a))
             => C24_Rejected("c1", "add_context", C24_MissingOf(a, "add_context"))
      /\ \A a \in NodeRefArgs :
           (C24_MissingOf(a, "get_context") # << >> /\ Tool_get_context("c1", a))
             => C24_Rejected("c1", "get_context", C24_MissingOf(a, "get_context"))
      /\ \A a \in NodeRefArgs :
           (C24_MissingOf(a, "get_conversation_path") # << >> /\ Tool_get_conversation_path("c1", a))
             => C24_Rejected("c1", "get_conversation_path",
                             C24_MissingOf(a, "get_conversation_path"))

C25_NotFound(c) == Tool_response(result'[c]).kind = "not_found"

\* Claim C25: a request that names a node, parent or board that does not
\* exist (get, update or delete node, branch conversation, add context,
\* create edge, delete board) is answered "not found" and not with the
\* message of a storage failure.  The index is taken to be disabled, so that
\* no call on it can fail.
C25_Step ==
  (~enabled /\ CallEnds("c1")) =>
    LET res == result'["c1"]
        start == CallStart("c1")
    IN /\ (res.op \in {"getNode", "updateNode", "deleteNode", "addContext"}
             /\ ~NodeExists(start, res.id)) => C25_NotFound("c1")
       /\ (res.op = "deleteBoard" /\ res.id \notin DOMAIN start.boards)
             => C25_NotFound("c1")
       /\ \A a \in BranchArgs :
            (/\ C24_MissingOf(a, "branch_conversation") = << >>
             /\ ~NodeExists(sqlite, a.parent_id)
             /\ Tool_branch_conversation("c1", a)) => C25_NotFound("c1")
       /\ \A a \in CreateEdgeArgs :
            (/\ C24_MissingOf(a, "create_edge") = << >>
             /\ ~(NodeExists(sqlite, a.source_id) /\ NodeExists(sqlite, a.target_id))
             /\ Tool_create_edge("c1", a)) => C25_NotFound("c1")

C25_ReferentialNotFound == [][C25_Step]_vars

\* ---- C26

\* deleteProject(P) returns in this step.
C26_DeleteProjectReturns(c, P) ==
  /\ pc[c] = "idle" /\ pc'[c] = "done"
  /\ result'[c].op = "deleteProject" /\ result'[c].id = P

\* Claim C26, as stated: deleteProject(P) for a project P other than the
\* default removes every board of P, every node on those boards, every edge
\* touching those nodes, every context entry of those nodes and the project
\* row, and leaves every board, node and edge of the other projects as it was.
C26_OriginalStep ==
  \A c \in Callers, P \in ProjectIds \ {"default"} :
    (C26_DeleteProjectReturns(c, P) /\ P \in sqlite.projects) =>
      LET bs == BoardsOfProject(sqlite, P)
          ns == NodesOfBoards(sqlite, bs)
      IN /\ result'[c].status = "true"
         /\ sqlite'.projects = sqlite.projects \ {P}
         /\ DOMAIN sqlite'.boards = DOMAIN sqlite.boards \ bs
         /\ \A b \in DOMAIN sqlite'.boards : sqlite'.boards[b] = sqlite.boards[b]
         /\ DOMAIN sqlite'.nodes = DOMAIN sqlite.nodes \ ns
         /\ \A n \in DOMAIN sqlite'.nodes : sqlite'.nodes[n] = sqlite.nodes[n]
         /\ \A e \in DOMAIN sqlite.edges :
              (sqlite.edges[e].source_id \notin ns /\ sqlite.edges[e].target_id \notin ns)
                => (e \in DOMAIN sqlite'.edges /\ sqlite'.edges[e] = sqlite.edges[e])

C26_Original == [][C26_OriginalStep]_vars

\* Claim C26, amended: deleteProject(P) for a project P other than the default removes,
\* in the one step of its transaction, every board of P, every node on those
\* boards, every edge touching those nodes, every context entry of those
\* nodes, and the project row; boards outside P, edges between surviving
\* nodes and the context entries of surviving nodes are unchanged, and a
\* surviving node is unchanged except that a parent_id which referenced a
\* removed node is now null.  With a project id that is not stored it
\* returns false and changes nothing.
C26_Step ==
  \A c \in Callers, P \in ProjectIds \ {"default"} :
    C26_DeleteProjectReturns(c, P) =>
      IF P \notin sqlite.projects
      THEN result'[c].status = "false" /\ sqlite' = sqlite
      ELSE LET bs == BoardsOfProject(sqlite, P)
               ns == NodesOfBoards(sqlite, bs)
           IN /\ result'[c].status = "true"
              /\ sqlite'.projects = sqlite.projects \ {P}
              /\ DOMAIN sqlite'.boards = DOMAIN sqlite.boards \ bs
              /\ \A b \in DOMAIN sqlite'.boards : sqlite'.boards[b] = sqlite.boards[b]
              /\ DOMAIN sqlite'.nodes = DOMAIN sqlite.nodes \ ns
              /\ \A n \in DOMAIN sqlite'.nodes :
                   IF sqlite.nodes[n].parent_id \in ns
                   THEN sqlite'.nodes[n] = [sqlite.nodes[n] EXCEPT !.parent_id = NULL]
                   ELSE sqlite'.nodes[n] = sqlite.nodes[n]
              /\ DOMAIN sqlite'.edges =
                   {e \in DOMAIN sqlite.edges :
                      sqlite.edges[e].source_id \notin ns /\ sqlite.edges[e].target_id \notin ns}
              /\ \A e \in DOMAIN sqlite'.edges : sqlite'.edges[e] = sqlite.edges[e]
              /\ sqlite'.chain = SelectSeq(sqlite.chain, LAMBDA r : r.node_id \notin ns)

C26_DeleteProjectCascade == [][C26_Step]_vars

\* deleteProject('p1') returned true; the first node made is gone, which only
\* the removal of its board's project can have done, and a later node on the
\* default board is still there.
C26_Witness ==
  \E c \in Callers :
    /\ pc[c] = "done"
    /\ result[c].op = "deleteProject" /\ result[c].id = "p1" /\ result[c].status = "true"
    /\ "n1" \notin DOMAIN sqlite.nodes
    /\ "n2" \in DOMAIN sqlite.nodes
    /\ "b1" \notin DOMAIN sqlite.boards
    /\ "p1" \notin sqlite.projects

\* ---- C27

\* The operations of the Graph Manager that change stored state.
C27_MutatingOps ==
  {"createNode", "updateNode", "deleteNode", "addContext", "branchNode", "createEdge",
   "deleteEdge", "createBoard", "deleteBoard", "updateBoardViewport"}

\* The call of c ends in this step and succeeded: it returned its entity,
\* true, or (updateBoardViewport, on a stored board) nothing.
C27_Succeeds(c) ==
  /\ CallEnds(c)
  /\ result'[c].op \in C27_MutatingOps
  /\ result'[c].status \in {"ok", "true"}
  /\ result'[c].op = "updateBoardViewport" => result'[c].id \in DOMAIN sqlite.boards

\* The data the event of a successful call is to carry: the resulting
\* entity, or {id} for a delete.
C27_Data(res, db2, ev) ==
  CASE res.op \in {"createNode", "updateNode", "branchNode"} -> ev.data = db2.nodes[res.id]
    [] res.op = "createEdge" -> ev.data = db2.edges[res.id]
    [] res.op \in {"createBoard", "updateBoardViewport"} -> ev.data = db2.boards[res.id]
    [] res.op \in {"deleteNode", "deleteEdge", "deleteBoard"} -> ev.data = [id |-> res.id]
    [] OTHER -> ev.data.node_id = res.id

C27_OneEvent(c) ==
  /\ Len(emitted'[c]) = 1
  /\ DOMAIN emitted'[c][1] = {"event", "data", "boardId"}
  /\ C27_Data(result'[c], sqlite', emitted'[c][1])

\* Claim C27: every successful call of an operation that changes stored
\* state (createNode, updateNode, deleteNode, addContext, branchNode,
\* createEdge, deleteEdge, createBoard, deleteBoard, updateBoardViewport)
\* emits exactly one mutation event {event, data, boardId} whose data is the
\* resulting entity, or {id} for a delete.
C27_Step == \A c \in Callers : C27_Succeeds(c) => C27_OneEvent(c)

C27_OneEventPerMutation == [][C27_Step]_vars

\* The same of every listed operation but updateBoardViewport.
C27_OtherOpsStep ==
  \A c \in Callers :
    (C27_Succeeds(c) /\ result'[c].op # "updateBoardViewport") => C27_OneEvent(c)

C27_OtherOps == [][C27_OtherOpsStep]_vars

\* ---- C28

\* The events caller c emits in this step.
C28_NewEvents(c) ==
  IF pc[c] = "idle" THEN emitted'[c]
  ELSE SubSeq(emitted'[c], Len(emitted[c]) + 1, Len(emitted'[c]))

\* The board the event is to be scoped to: that of the node it is about (as
\* it was before the step, for a node the step deletes), or that of the
\* source node of the edge it is about (the edge as it was before the step,
\* for an edge the step deletes).
C28_Scoped(ev) ==
  CASE ev.event \in {"node_created", "node_updated"} ->
         /\ NodeExists(sqlite', ev.data.id)
         /\ ev.boardId = sqlite'.nodes[ev.data.id].board_id
    [] ev.event = "context_added" ->
         /\ NodeExists(sqlite', ev.data.node_id)
         /\ ev.boardId = sqlite'.nodes[ev.data.node_id].board_id
    [] ev.event = "node_deleted" ->
         /\ NodeExists(sqlite, ev.data.id)
         /\ ev.boardId = sqlite.nodes[ev.data.id].board_id
    [] ev.event = "edge_created" ->
         /\ NodeExists(sqlite', ev.data.source_id)
         /\ ev.boardId = sqlite'.nodes[ev.data.source_id].board_id
    [] ev.event = "edge_deleted" ->
         /\ ev.data.id \in DOMAIN sqlite.edges
         /\ NodeExists(sqlite, sqlite.edges[ev.data.id].source_id)
         /\ ev.boardId = sqlite.nodes[sqlite.edges[ev.data.id].source_id].board_id
    [] OTHER -> TRUE

\* Claim C28: the boardId of every node event is the board_id of the node it
\* is about (for node_deleted, the board_id the node had before the
\* deletion), and the boardId of every edge_created and edge_deleted event
\* is the board_id of the source node of the edge, read before the edge is
\* removed.
C28_Step ==
  \A c \in Callers :
    \A i \in 1..Len(C28_NewEvents(c)) : C28_Scoped(C28_NewEvents(c)[i])

C28_EventBoardScoping == [][C28_Step]_vars

\* An edge whose source node is on board b1 was deleted, and the event of
\* the deletion is scoped to b1.
C28_Witness ==
  \E c \in Callers :
    /\ pc[c] = "done"
    /\ result[c].op = "deleteEdge" /\ result[c].status = "true"
    /\ Len(emitted[c]) = 1
    /\ emitted[c][1].event = "edge_deleted"
    /\ emitted[c][1].boardId = "b1"

\* ---- C29

\* addContext(n, text, source) of caller c returns in this step.
C29_AddContextReturns(c) ==
  /\ pc[c] = "addContext_addContext" /\ pc'[c] = "done"
  /\ result'[c].status = "ok"

\* Claim C29: a call addContext(n, text, source) that returns, on a node n
\* that existed when it began, has appended the one entry (text, source) to
\* the context_chain of n, has set n.context to the prior context, a blank
\* line and text (to text alone when the prior context was empty), has left
\* every other column of n and every other node unchanged, and has emitted
\* exactly one context_added event.
C29_Step ==
  \A c \in Callers :
    (C29_AddContextReturns(c) /\ NodeExists(frame[c].pre, frame[c].id)) =>
      LET pre == frame[c].pre
          n == frame[c].id
          text == frame[c].arg.context_entry
          source == frame[c].arg.source
          prior == pre.nodes[n].context
      IN /\ sqlite'.chain =
              Append(pre.chain, [node_id |-> n, context_entry |-> text, source |-> source])
         /\ DOMAIN sqlite'.nodes = DOMAIN pre.nodes
         /\ sqlite'.nodes[n] =
              [pre.nodes[n] EXCEPT
                 !.context = IF prior = << >> THEN text ELSE prior \o <<SEP>> \o text]
         /\ \A m \in DOMAIN pre.nodes \ {n} : sqlite'.nodes[m] = pre.nodes[m]
         /\ Len(emitted'[c]) = 1
         /\ emitted'[c][1].event = "context_added"
         /\ emitted'[c][1].data = [node_id |-> n, text |-> text, source |-> source]

C29_AddContextAppends == [][C29_Step]_vars

\* addContext returned on a node that had a context: the node now holds the
\* prior context, the separator and the new text, and the chain holds the
\* entry.
C29_Witness ==
  \E c \in Callers, n \in DOMAIN sqlite.nodes :
    /\ pc[c] = "done"
    /\ result[c].op = "addContext" /\ result[c].id = n /\ result[c].status = "ok"
    /\ Len(sqlite.nodes[n].context) = 3
    /\ sqlite.nodes[n].context[2] = SEP
    /\ sqlite.nodes[n].context[3] \in AddWords
    /\ Len(Sqlite_getContextForNode(sqlite, n)) = 1
    /\ Len(emitted[c]) = 1

\* ---- C30

\* The child a branch of `parentId` is to create in store db: its parent is
\* parentId, its board the parent's, its context getInheritedContext(parentId)
\* as db gives it.
C30_Child(db, parentId, row) ==
  /\ row.parent_id = parentId
  /\ row.board_id = db.nodes[parentId].board_id
  /\ row.context = Sqlite_getInheritedContext(db, parentId)

\* Claim C30: a branch whose parent does not exist returns absent, creates
\* no node and emits no event; a branch whose parent exists creates exactly
\* one node, with parent_id the parent, board_id the parent's board whatever
\* board the request names, and context getInheritedContext(parent) as of
\* the call, and when it returns it has emitted one node_created carrying
\* the child.
C30_Step ==
  /\ \A a \in BranchArgs :
       (C24_MissingOf(a, "branch_conversation") = << >> /\ Tool_branch_conversation("c1", a)) =>
         IF ~NodeExists(sqlite, a.parent_id)
         THEN /\ pc'["c1"] = "done"
              /\ result'["c1"].op = "branchNode" /\ result'["c1"].status = "absent"
              /\ sqlite' = sqlite /\ vec' = vec
              /\ emitted'["c1"] = << >>
         ELSE \E id \in NodeIds \ DOMAIN sqlite.nodes :
                /\ DOMAIN sqlite'.nodes = DOMAIN sqlite.nodes \cup {id}
                /\ \A m \in DOMAIN sqlite.nodes : sqlite'.nodes[m] = sqlite.nodes[m]
                /\ C30_Child(sqlite, a.parent_id, sqlite'.nodes[id])
                /\ sqlite'.nodes[id].type = a.type
                /\ sqlite'.nodes[id].content = JSON_stringify(a.content)
  /\ (CallEnds("c1") /\ result'["c1"].op = "branchNode" /\ result'["c1"].status = "ok") =>
       LET child == result'["c1"].value
           start == CallStart("c1")
       IN /\ DOMAIN sqlite'.nodes = DOMAIN start.nodes \cup {child.id}
          /\ child.id \notin DOMAIN start.nodes
          /\ sqlite'.nodes[child.id] = child
          /\ C30_Child(start, child.parent_id, child)
          /\ emitted'["c1"] = <<Ev("node_created", child, start.nodes[child.parent_id].board_id)>>

C31_UpdateReturns(c, id, updates) ==
  /\ pc[c] = "idle" /\ pc'[c] = "done"
  /\ result'[c].op = "sqlite.updateNode" /\ result'[c].id = id
  /\ result'[c].status # "error"
  /\ Store_updateNode(c, id, updates)

\* The columns of node id after the call: each provided field has the value
\* given, each other one its old value; every other node is as it was.
C31_FieldsApplied(id, updates) ==
  /\ DOMAIN sqlite'.nodes = DOMAIN sqlite.nodes
  /\ \A m \in DOMAIN sqlite.nodes \ {id} : sqlite'.nodes[m] = sqlite.nodes[m]
  /\ sqlite'.nodes[id].id = id
  /\ sqlite'.nodes[id].board_id = sqlite.nodes[id].board_id
  /\ sqlite'.nodes[id].content =
       IF updates.content # UNDEF THEN updates.content ELSE sqlite.nodes[id].content
  /\ sqlite'.nodes[id].context =
       IF updates.context # UndefStr THEN updates.context ELSE sqlite.nodes[id].context
  /\ sqlite'.nodes[id].type =
       IF updates.type # UNDEF THEN updates.type ELSE sqlite.nodes[id].type
  /\ sqlite'.nodes[id].parent_id =
       IF updates.parent_id # UNDEF THEN updates.parent_id ELSE sqlite.nodes[id].parent_id
  /\ sqlite'.edges = sqlite.edges /\ sqlite'.chain = sqlite.chain
  /\ sqlite'.boards = sqlite.boards /\ sqlite'.projects = sqlite.projects
  /\ result'["c1"].status = "ok" /\ result'["c1"].value = sqlite'.nodes[id]

\* With no field, or for an id that is not stored, nothing is written: the
\* call returns the current node, or absent.
C31_NothingWritten(id) ==
  /\ sqlite' = sqlite
  /\ IF NodeExists(sqlite, id)
     THEN result'["c1"].status = "ok" /\ result'["c1"].value = sqlite.nodes[id]
     ELSE result'["c1"].status = "absent"

\* Claim C31, as stated: updateNode(id, fields) changes only the provided
\* fields among content, context, type and parent_id and leaves every other
\* field of the node, its updated_at among them, and every other node
\* unchanged; with no field it writes nothing and returns the current node;
\* for an id that is not stored it returns absent and changes nothing.
C31_OriginalStep ==
  \A id \in IdInputs, updates \in UpdateInputs :
    C31_UpdateReturns("c1", id, updates) =>
      IF ~NodeExists(sqlite, id) \/ ~HasFields(updates)
      THEN C31_NothingWritten(id)
      ELSE /\ C31_FieldsApplied(id, updates)
           /\ sqlite'.updated_at = sqlite.updated_at

C31_Original == [][C31_OriginalStep]_vars

\* Claim C31, amended: updateNode(id, fields) changes only the provided
\* fields among content, context, type and parent_id, sets the node's
\* updated_at to the current time, and leaves every other field of the node
\* and every other node, its updated_at included, unchanged; with no field
\* it writes nothing and returns the current node; for an id that is not
\* stored it returns absent and changes nothing.
C31_Step ==
  \A id \in IdInputs, updates \in UpdateInputs :
    C31_UpdateReturns("c1", id, updates) =>
      IF ~NodeExists(sqlite, id) \/ ~HasFields(updates)
      THEN C31_NothingWritten(id)
      ELSE /\ C31_FieldsApplied(id, updates)
           /\ DOMAIN sqlite'.updated_at = DOMAIN sqlite.updated_at
           /\ \A m \in DOMAIN sqlite.updated_at \ {id} :
                sqlite'.updated_at[m] = sqlite.updated_at[m]
           /\ sqlite'.updated_at[id] \in Times(sqlite)

C31_UpdateNodeFrame == [][C31_Step]_vars

\* updateNode returned a node that has a parent and whose context it has
\* just set, at a time later than the node's creation.
C31_Witness ==
  /\ pc["c1"] = "done"
  /\ result["c1"].op = "sqlite.updateNode" /\ result["c1"].status = "ok"
  /\ \E n \in DOMAIN sqlite.nodes :
       /\ result["c1"].id = n
       /\ sqlite.nodes[n].context \in {<<w>> : w \in EditWords}
       /\ sqlite.nodes[n].parent_id # NULL
       /\ sqlite.updated_at[n] = 1
       /\ \E m \in DOMAIN sqlite.nodes : sqlite.updated_at[m] = 0

\* ------------------------------------------------------------ list tools

LIST_ITEM_HEIGHT == 200
LIST_GAP == 12
LIST_PADDING == 16
LIST_HEADER_HEIGHT == 48

\* listSlotPosition(order): the position of slot `order` inside a list node.
listSlotPosition(order) ==
  [x |-> LIST_PADDING,
   y |-> LIST_HEADER_HEIGHT + LIST_PADDING + order * (LIST_ITEM_HEIGHT + LIST_GAP)]

\* The content column holds JSON text.  The texts of the list model, by the
\* order their object carries: a list item, and a list node that was itself
\* moved into a list.  "list" is the text of a list node with no order.
ItemTexts == <<"item#0", "item#1", "item#2", "item#3", "item#4", "item#5">>
ListTexts == <<"list#0", "list#1", "list#2", "list#3", "list#4", "list#5">>

ListContentTexts ==
  {"list"} \cup {ItemTexts[k] : k \in DOMAIN ItemTexts}
           \cup {ListTexts[k] : k \in DOMAIN ListTexts}

\* The content object of a list item in slot `order`.
ItemContent(order) ==
  [text |-> "t", order |-> order, position |-> listSlotPosition(order)]

\* JSON.parse(node.content): the object a content text stands for.
JSON_parse(text) ==
  IF text = "list" THEN [title |-> "L"]
  ELSE LET k == CHOOSE k \in DOMAIN ItemTexts : text \in {ItemTexts[k], ListTexts[k]}
       IN IF text = ItemTexts[k] THEN ItemContent(k - 1)
          ELSE [title |-> "L", order |-> k - 1, position |-> listSlotPosition(k - 1)]

\* JSON.parse throws on a text that is no JSON: the handler's catch then
\* answers with the error.
JSON_parse_throws(db, ids) == \E n \in ids : db.nodes[n].content \notin ListContentTexts

\* JSON.stringify(content) for the objects of the list model.
JSON_stringify_object(content) ==
  IF "order" \notin DOMAIN content THEN "list"
  ELSE IF "text" \in DOMAIN content THEN ItemTexts[content.order + 1]
  ELSE ListTexts[content.order + 1]

\* content.order ?? fallback
OrderOr(content, fallback) ==
  IF "order" \in DOMAIN content THEN content.order ELSE fallback

\* content.order = order; content.position = listSlotPosition(order)
WithOrder(content, order) ==
  [k \in DOMAIN content \cup {"order", "position"} |->
     IF k = "order" THEN order
     ELSE IF k = "position" THEN listSlotPosition(order)
     ELSE content[k]]

\* getChildNodes: SELECT * FROM nodes WHERE parent_id = ?
Sqlite_getChildNodes(db, parentId) ==
  {n \in DOMAIN db.nodes : db.nodes[n].parent_id = parentId}

ChildOrder(db, n, fallback) == OrderOr(JSON_parse(db.nodes[n].content), fallback)

\* children.sort((a, b) => (a.content.order ?? 999) - (b.content.order ?? 999)):
\* the rows in an order the sort may leave them in (the SELECT has no ORDER BY,
\* so rows of equal order may come either way round).
SortedChildren(db, listId) ==
  LET kids == Sqlite_getChildNodes(db, listId)
  IN {s \in [1..Cardinality(kids) -> kids] :
        /\ \A i, j \in DOMAIN s : i # j => s[i] # s[j]
        /\ \A i, j \in DOMAIN s :
             i < j => ChildOrder(db, s[i], 999) <= ChildOrder(db, s[j], 999)}

\* db.updateNode(id, {content}) of a node that exists: the row after it.
SetContent(db, id, text) ==
  Sqlite_updateNode(db, id, [NoUpdates EXCEPT !.content = text])

\* The loop of reflowListChildren over the sorted children s, from index i:
\* child s[i] takes order i - 1 and the position of that slot.
RECURSIVE ReflowLoop(_, _, _)
ReflowLoop(db, s, i) ==
  IF i > Len(s) THEN db
  ELSE ReflowLoop(
         SetContent(db, s[i],
           JSON_stringify_object(WithOrder(JSON_parse(db.nodes[s[i]].content), i - 1))),
         s, i + 1)

\* The node_updated events of the loop: one for each child, carrying its row
\* as the update left it.
RECURSIVE ReflowEvents(_, _, _)
ReflowEvents(db, s, i) ==
  IF i > Len(s) THEN << >>
  ELSE LET text == JSON_stringify_object(WithOrder(JSON_parse(db.nodes[s[i]].content), i - 1))
           db2 == SetContent(db, s[i], text)
       IN <<Ev("node_updated", db2.nodes[s[i]], db2.nodes[s[i]].board_id)>>
            \o ReflowEvents(db2, s, i + 1)

\* The greatest order among the children, each without one counting as 0;
\* -1 when there is no child.
MaxOrder(db, kids) ==
  IF kids = {} THEN -1
  ELSE CHOOSE m \in {ChildOrder(db, n, 0) : n \in kids} :
         \A n \in kids : ChildOrder(db, n, 0) <= m

\* add_list_item: the new item takes the order after the greatest one.
Tool_add_list_item(c, a) ==
  LET missing == validateArgs_missing(a, ValidatedArgs("add_list_item"))
      listNode == Sqlite_getNode(sqlite, a.list_id)
      order == MaxOrder(sqlite, Sqlite_getChildNodes(sqlite, a.list_id)) + 1
  IN IF missing # << >> THEN Tool_invalid(c, "add_list_item", missing)
     ELSE IF listNode = NoRow \/ listNode.type # "list"
     THEN /\ CanBegin(c)
          /\ Return(c, sqlite, vec, << >>, Res("add_list_item", a.list_id, "not_found", NoRow))
     ELSE IF JSON_parse_throws(sqlite, Sqlite_getChildNodes(sqlite, a.list_id))
     THEN /\ CanBegin(c)
          /\ Throw(c, sqlite, vec, "add_list_item", a.list_id)
     ELSE \E id \in FreshNodeId :
            DM_createNode(c, [id |-> id, type |-> "stickyNote",
                              content |-> JSON_stringify_object(ItemContent(order)),
                              context |-> << >>, parent_id |-> a.list_id,
                              board_id |-> listNode.board_id])

\* move_to_list: the node takes the order targetChildren.length in the target
\* list; the list it left is reflowed when it is another one.  An empty
\* target_list_id passes validateArgs and detaches the node.  Neither
\* updateNode here carries a context, so the handler's awaits suspend on
\* nothing but settled promises.  A content that does not parse ends the
\* handler where it is read: before the move, or after it in the reflow.
Tool_move_to_list(c, a) ==
  LET missing == validateArgs_missing(a, ValidatedArgs("move_to_list"))
      moveNode == Sqlite_getNode(sqlite, a.node_id)
      oldParentId == moveNode.parent_id
      targetList == Sqlite_getNode(sqlite, a.target_list_id)
      nextOrder == Cardinality(Sqlite_getChildNodes(sqlite, a.target_list_id))
      nodeContent == WithOrder(JSON_parse(moveNode.content), nextOrder)
      db2 == IF a.target_list_id # ""
             THEN Sqlite_updateNode(sqlite, a.node_id,
                    [NoUpdates EXCEPT !.parent_id = a.target_list_id,
                                      !.content = JSON_stringify_object(nodeContent)])
             ELSE Sqlite_updateNode(sqlite, a.node_id, [NoUpdates EXCEPT !.parent_id = NULL])
      moved == db2.nodes[a.node_id]
      reflows == oldParentId # NULL /\ oldParentId # a.target_list_id
  IN IF missing # << >> THEN Tool_invalid(c, "move_to_list", missing)
     ELSE /\ CanBegin(c)
          /\ IF moveNode = NoRow
             THEN Return(c, sqlite, vec, << >>, Res("move_to_list", a.node_id, "not_found", NoRow))
             ELSE IF a.target_list_id # "" /\ (targetList = NoRow \/ targetList.type # "list")
             THEN Return(c, sqlite, vec, << >>,
                         Res("move_to_list", a.target_list_id, "not_found", NoRow))
             ELSE IF a.target_list_id # "" /\ JSON_parse_throws(sqlite, {a.node_id})
             THEN Throw(c, sqlite, vec, "move_to_list", a.node_id)
             ELSE IF reflows /\ JSON_parse_throws(db2, Sqlite_getChildNodes(db2, oldParentId))
             THEN Return(c, db2, vec, <<Ev("node_updated", moved, moved.board_id)>>,
                         Res("move_to_list", a.node_id, "error", NoRow))
             ELSE IF reflows
             THEN \E s \in SortedChildren(db2, oldParentId) :
                    Return(c, ReflowLoop(db2, s, 1), vec,
                           <<Ev("node_updated", moved, moved.board_id)>> \o ReflowEvents(db2, s, 1),
                           Res("move_to_list", a.node_id, "ok", moved))
             ELSE Return(c, db2, vec, <<Ev("node_updated", moved, moved.board_id)>>,
                         Res("move_to_list", a.node_id, "ok", moved))

AddListItemArgs == [list_id : IdInputs \cup {UNDEF}, text : {<<"t">>}]

MoveToListArgs == [node_id : IdInputs, target_list_id : IdInputs \cup {NULL, ""}]

MaxListCalls == 4

\* A store holding one list node, as create_node with type 'list' leaves it.
Sqlite_init_list ==
  [Sqlite_init EXCEPT !.nodes = ("n1" :>
     [id |-> "n1", type |-> "list", content |-> "list", context |-> << >>,
      parent_id |-> NULL, board_id |-> "default"])]

InitLists ==
  /\ sqlite = Sqlite_init_list
  /\ vec = EmptyBag
  /\ enabled \in BOOLEAN
  /\ pc = [c \in Callers |-> "idle"]
  /\ frame = [c \in Callers |-> NoFrame]
  /\ result = [c \in Callers |-> NoResult]
  /\ emitted = [c \in Callers |-> << >>]
  /\ subscribed = FALSE
  /\ inflight = {}
  /\ calls = 0
  /\ limit = MaxListCalls
  /\ delivery = NoDelivery
  /\ manager = OpenManager

NextLists ==
  \/ \E a \in AddListItemArgs : Tool_add_list_item("c1", a)
  \/ \E a \in MoveToListArgs : Tool_move_to_list("c1", a)
  \/ \E a \in NodeIdArgs : Tool_delete_node("c1", a)
  \/ DM_deleteNode_deleteContexts("c1")
  \/ Ack("c1")

SpecLists == InitLists /\ [][NextLists]_vars

\* ---- C38
\* The children of a list node that carry the same order.
C38_SameSlot(db, listId) ==
  {pair \in Sqlite_getChildNodes(db, listId) \X Sqlite_getChildNodes(db, listId) :
     /\ pair[1] # pair[2]
     /\ ChildOrder(db, pair[1], 999) = ChildOrder(db, pair[2], 999)}

\* C38: once a sequence of add_list_item, move_to_list and delete_node calls
\* has returned, the children of every list node carry pairwise distinct
\* orders.
C38_ListSlotsDistinct ==
  pc["c1"] \in {"idle", "done"} =>
    \A l \in DOMAIN sqlite.nodes :
      sqlite.nodes[l].type = "list" => C38_SameSlot(sqlite, l) = {}

\* The node, context, branch, edge and list calls together, the list node on
\* a board of its own.
MaxNodeOpCalls == 2

InitNodeOps ==
  /\ sqlite = [Sqlite_init_list EXCEPT !.nodes["n1"].board_id = "b1"]
  /\ vec = EmptyBag
  /\ enabled \in BOOLEAN
  /\ pc = [c \in Callers |-> "idle"]
  /\ frame = [c \in Callers |-> NoFrame]
  /\ result = [c \in Callers |-> NoResult]
  /\ emitted = [c \in Callers |-> << >>]
  /\ subscribed = FALSE
  /\ inflight = {}
  /\ calls = 0
  /\ limit = MaxNodeOpCalls
  /\ delivery = NoDelivery
  /\ manager = OpenManager

NextNodeOps ==
  \/ Call("c1")
  \/ \E a \in AddListItemArgs : Tool_add_list_item("c1", a)
  \/ \E a \in MoveToListArgs : Tool_move_to_list("c1", a)

SpecNodeOps == InitNodeOps /\ [][NextNodeOps]_vars

\* ---- C32
\* C32: no step of an updateNode, addContext, branchNode, edge or list call
\* (nor of any other call) changes the board_id of a node that exists before
\* and after the step.
C32_BoardIdFixed ==
  [][\A n \in DOMAIN sqlite.nodes \cap DOMAIN sqlite'.nodes :
       sqlite'.nodes[n].board_id = sqlite.nodes[n].board_id]_vars

\* An item added to a list of board b1 has been moved by move_to_list, which
\* rewrote its content, and is still on b1.
C32_Witness ==
  /\ result["c1"].op = "move_to_list"
  /\ result["c1"].status = "ok"
  /\ sqlite.nodes[result["c1"].id].board_id = "b1"
  /\ sqlite.nodes[result["c1"].id].type = "stickyNote"
  /\ sqlite.nodes[result["c1"].id].content = "item#1"

\* ---- C34

\* The rows the parent links lead through from n, n first, up to the first
\* link that names no row or a row already passed.
RECURSIVE C34_Visited(_, _, _)
C34_Visited(db, n, seen) ==
  IF n = NULL \/ ~NodeExists(db, n) \/ \E i \in DOMAIN seen : seen[i] = n THEN seen
  ELSE C34_Visited(db, db.nodes[n].parent_id, Append(seen, n))

\* The parent chain of n runs into a row it has already passed.
C34_ChainHasCycle(db, n) ==
  /\ NodeExists(db, n)
  /\ LET seen == C34_Visited(db, n, << >>)
     IN \E i \in DOMAIN seen : db.nodes[seen[Len(seen)]].parent_id = seen[i]

C34_Reverse(s) == [i \in 1..Len(s) |-> s[Len(s) + 1 - i]]

\* C34: for a node whose parent chain contains a cycle, getInheritedContext
\* returns the non-empty own contexts of the rows visited, each once, from
\* the last row reached before the repeat down to the node itself.
C34_CycleStopsAtRepeat ==
  \A c \in Callers :
    (/\ pc[c] = "done"
     /\ result[c].op = "getInheritedContext"
     /\ C34_ChainHasCycle(sqlite, result[c].id))
    => /\ result[c].value.text =
            OwnContextsJoined(sqlite, C34_Reverse(C34_Visited(sqlite, result[c].id, << >>)))
       /\ result[c].value.steps = Len(C34_Visited(sqlite, result[c].id, << >>))

\* getInheritedContext returned for a node on a two-node cycle whose rows
\* both have a context: the other row's context comes first.
C34_Witness ==
  \E c \in Callers :
    /\ pc[c] = "done"
    /\ result[c].op = "getInheritedContext"
    /\ OnTwoCycle(sqlite, result[c].id)
    /\ LET n == result[c].id
           p == sqlite.nodes[n].parent_id
       IN /\ sqlite.nodes[n].context # << >>
          /\ sqlite.nodes[p].context # << >>
          /\ sqlite.nodes[p].context # sqlite.nodes[n].context
          /\ result[c].value.text =
               sqlite.nodes[p].context \o <<SEP>> \o sqlite.nodes[n].context

\* ------------------------------------------------- getOrCreate operations

\* getBoardBySlug: the row of the board with that project and slug (the
\* unique index leaves at most one), or no row.
Sqlite_getBoardBySlug(db, projectId, slug) ==
  LET found == {b \in DOMAIN db.boards :
                  db.boards[b].project_id = projectId /\ db.boards[b].slug = slug}
  IN IF found = {} THEN NoRow ELSE db.boards[CHOOSE b \in found : TRUE]

\* The template literal `${projectId}:${slug}`.
ProjectSlugId(projectId, slug) ==
  CASE projectId = "default" /\ slug = << >> -> "default:"
    [] projectId = "default" /\ slug = <<"p", "l", "a", "n">> -> "default:plan"
    [] projectId = "default" /\ slug = <<"m", "a", "i", "n">> -> "default:main"
    [] projectId = "p1" /\ slug = << >> -> "p1:"
    [] projectId = "p1" /\ slug = <<"p", "l", "a", "n">> -> "p1:plan"
    [] projectId = "p1" /\ slug = <<"m", "a", "i", "n">> -> "p1:main"

\* getOrCreateBoard(projectId, slug, name): the store after it, whether it
\* threw, and the row it returned.
getOrCreateBoard_call(db, projectId, slug, name) ==
  LET existing == Sqlite_getBoardBySlug(db, projectId, slug)
      boardId == ProjectSlugId(projectId, slug)
  IN IF existing # NoRow THEN [db |-> db, status |-> "ok", row |-> existing]
     ELSE IF Sqlite_createBoard_throws(db, boardId, name, projectId, slug)
     THEN [db |-> db, status |-> "error", row |-> NoRow]
     ELSE LET db2 == Sqlite_createBoard(db, boardId, name, projectId, slug)
          IN [db |-> db2, status |-> "ok", row |-> db2.boards[boardId]]

\* getOrCreateProject(id, name).
getOrCreateProject_call(db, id) ==
  IF id \in db.projects THEN [db |-> db, status |-> "ok", row |-> [id |-> id]]
  ELSE IF Sqlite_createProject_throws(db, id)
  THEN [db |-> db, status |-> "error", row |-> NoRow]
  ELSE [db |-> Sqlite_createProject(db, id), status |-> "ok", row |-> [id |-> id]]

\* The result of a getOrCreate call keeps the arguments with the row.
GetOrCreateRes(op, r, args) ==
  Res(op, NULL, r.status, [row |-> r.row, args |-> args])

Store_getOrCreateBoard(c, projectId, slug, name) ==
  /\ CanBegin(c)
  /\ LET r == getOrCreateBoard_call(sqlite, projectId, slug, name)
     IN Return(c, r.db, vec, << >>,
               GetOrCreateRes("getOrCreateBoard", r, <<projectId, slug, name>>))

Store_getOrCreateProject(c, id) ==
  /\ CanBegin(c)
  /\ LET r == getOrCreateProject_call(sqlite, id)
     IN Return(c, r.db, vec, << >>, GetOrCreateRes("getOrCreateProject", r, <<id>>))

\* The caller whose getOrCreate call has returned makes the same call again.
Store_getOrCreate_again(c) ==
  /\ pc[c] = "done"
  /\ result[c].status = "ok"
  /\ result[c].op \in {"getOrCreateBoard", "getOrCreateProject"}
  /\ LET args == result[c].value.args
         r == IF result[c].op = "getOrCreateBoard"
              THEN getOrCreateBoard_call(sqlite, args[1], args[2], args[3])
              ELSE getOrCreateProject_call(sqlite, args[1])
     IN Return(c, r.db, vec, << >>, GetOrCreateRes(result[c].op, r, args))

MaxIdemCalls == 3

Slugs == {<< >>, <<"p", "l", "a", "n">>, <<"m", "a", "i", "n">>}

InitIdem == InitWith(FALSE, FALSE, MaxIdemCalls)

NextIdem ==
  \/ \E id \in ProjectIds : Store_getOrCreateProject("c1", id)
  \/ \E projectId \in ProjectIds, slug \in Slugs, name \in BoardNames :
       Store_getOrCreateBoard("c1", projectId, slug, name)
  \/ Store_getOrCreate_again("c1")
  \/ \E id \in ProjectIds : Store_deleteProject("c1", id)
  \/ Ack("c1")

SpecIdem == InitIdem /\ [][NextIdem]_vars

\* ---- C37
\* C37: when a getOrCreateBoard or getOrCreateProject call has returned and
\* the same call is made again with the same arguments, the second call
\* returns without error the entity the first returned and leaves the store
\* as it was.
C37_GetOrCreateIdempotent ==
  [][Store_getOrCreate_again("c1") =>
       /\ result'["c1"].status = "ok"
       /\ result'["c1"].value.row = result["c1"].value.row
       /\ sqlite' = sqlite]_vars

\* ------------------------------------------------ the manager's lifecycle

\* A step of a lifecycle call: as Step, with the manager it leaves.
LifeStep(c, mgr2, pc2, res) ==
  /\ manager' = mgr2
  /\ pc' = [pc EXCEPT ![c] = pc2]
  /\ result' = [result EXCEPT ![c] = res]
  /\ calls' = IF pc[c] = "idle" THEN calls + 1 ELSE calls
  /\ UNCHANGED <<sqlite, vec, enabled, frame, emitted, subscribed, inflight, limit, delivery>>

\* initDB(dbPath): getDB makes the manager when dbManager is null, and with it
\* a store handle that is open; db.init() returns at once when initialized
\* is set, and else awaits lancedb.init().
initDB(c) ==
  /\ CanBegin(c)
  /\ LET db == IF manager.dbManager THEN manager
               ELSE [dbManager |-> TRUE, open |-> TRUE, initialized |-> FALSE]
     IN IF db.initialized
        THEN LifeStep(c, db, "done", Res("initDB", NULL, "ok", NoRow))
        ELSE LifeStep(c, db, "initDB_init", [NoResult EXCEPT !.op = "initDB"])

\* initDB, from the end of lancedb.init(): initialized is set and the manager
\* returned, or the rejection of lancedb.init() is passed on.
initDB_init(c) ==
  /\ pc[c] = "initDB_init"
  /\ \E ok \in LanceOutcomes :
       IF ok
       THEN LifeStep(c, [manager EXCEPT !.initialized = TRUE], "done",
                     Res("initDB", NULL, "ok", NoRow))
       ELSE LifeStep(c, manager, "done", Res("initDB", NULL, "error", NoRow))

\* close() on the manager initDB returned: this.sqlite.close(), then the
\* await of lancedb.close().  dbManager keeps the manager.
DM_close(c) ==
  /\ CanBegin(c)
  /\ manager.dbManager
  /\ LifeStep(c, [manager EXCEPT !.open = FALSE], "close_lancedb",
              [NoResult EXCEPT !.op = "close"])

\* close, from the end of lancedb.close(): initialized = false.
DM_close_lancedb(c) ==
  /\ pc[c] = "close_lancedb"
  /\ LifeStep(c, [manager EXCEPT !.initialized = FALSE], "done",
              Res("close", NULL, "ok", NoRow))

\* createNode on the manager initDB returned: a statement on a store handle
\* that is closed throws.
Manager_createNode(c, node) ==
  /\ manager.dbManager
  /\ IF manager.open THEN DM_createNode(c, node)
     ELSE /\ CanBegin(c)
          /\ Throw(c, sqlite, vec, "createNode", node.id)

MaxLifeCalls == 4

LifeNodeInputs == {n \in GraphNodeInputs : n.parent_id = NULL}

InitLife ==
  /\ sqlite = Sqlite_init
  /\ vec = EmptyBag
  /\ enabled \in BOOLEAN
  /\ pc = [c \in Callers |-> "idle"]
  /\ frame = [c \in Callers |-> NoFrame]
  /\ result = [c \in Callers |-> NoResult]
  /\ emitted = [c \in Callers |-> << >>]
  /\ subscribed = FALSE
  /\ inflight = {}
  /\ calls = 0
  /\ limit = MaxLifeCalls
  /\ delivery = NoDelivery
  /\ manager = NoManager

NextLife ==
  \/ initDB("c1")
  \/ initDB_init("c1")
  \/ DM_close("c1")
  \/ DM_close_lancedb("c1")
  \/ \E node \in LifeNodeInputs : Manager_createNode("c1", node)
  \/ DM_createNode_addContext("c1")
  \/ Ack("c1")

SpecLife == InitLife /\ [][NextLife]_vars

\* ---- C39
\* C39: whenever initDB has returned a manager, the first time or again after
\* close(), that manager's store handle is open.
C39_ReturnedManagerOpen ==
  \A c \in Callers :
    (pc[c] = "done" /\ result[c].op = "initDB" /\ result[c].status = "ok")
    => manager.open

\* ------------------------------------------------------------ two callers

\* The text each caller writes: the two callers write different texts.
CallerWord(c) == IF c = "c1" THEN "edited" ELSE "beta"

\* A store holding one node with no context, as createNode leaves it.
Sqlite_init_node ==
  [Sqlite_init EXCEPT !.nodes = ("n1" :>
     [id |-> "n1", type |-> "conversation", content |-> "c0", context |-> << >>,
      parent_id |-> NULL, board_id |-> "default"])]

MaxRaceCalls == 3

InitRace ==
  /\ sqlite = Sqlite_init_node
  /\ vec = EmptyBag
  /\ enabled = TRUE
  /\ pc = [c \in Callers |-> "idle"]
  /\ frame = [c \in Callers |-> NoFrame]
  /\ result = [c \in Callers |-> NoResult]
  /\ emitted = [c \in Callers |-> << >>]
  /\ subscribed = FALSE
  /\ inflight = {}
  /\ calls = 0
  /\ limit = MaxRaceCalls
  /\ delivery = NoDelivery
  /\ manager = OpenManager

\* Two callers of updateNode on one manager, each free to run while the
\* other is suspended at an await of the index.
NextRace ==
  \/ \E c \in Callers, id \in IdInputs :
       DM_updateNode(c, id, [NoUpdates EXCEPT !.context = <<CallerWord(c)>>])
  \/ \E c \in Callers : DM_updateNode_getContexts(c)
  \/ \E c \in Callers : DM_updateNode_deleteContexts(c)
  \/ \E c \in Callers : DM_updateNode_addContext(c)
  \/ \E c \in Callers : Ack(c)

SpecRace == InitRace /\ [][NextRace]_vars

\* ---- C33
\* C33: once two updateNode calls with different contexts on the same node
\* have both returned, the index holds exactly one entry for the node, and
\* its text is the node's context in the store.
C33_OneEntryPerNode ==
  (/\ pc["c1"] = "done" /\ pc["c2"] = "done"
   /\ result["c1"].op = "updateNode" /\ result["c1"].status = "ok"
   /\ result["c2"].op = "updateNode" /\ result["c2"].status = "ok"
   /\ result["c1"].id = result["c2"].id)
  => LET entries == Lance_getContextsForNode(vec, result["c1"].id)
     IN /\ BagCardinality(entries) = 1
        /\ \A e \in BagToSet(entries) : e.text = sqlite.nodes[result["c1"].id].context

\* One call for each caller.
InitAppend ==
  /\ sqlite = Sqlite_init_node
  /\ vec = EmptyBag
  /\ enabled = TRUE
  /\ pc = [c \in Callers |-> "idle"]
  /\ frame = [c \in Callers |-> NoFrame]
  /\ result = [c \in Callers |-> NoResult]
  /\ emitted = [c \in Callers |-> << >>]
  /\ subscribed = FALSE
  /\ inflight = {}
  /\ calls = 0
  /\ limit = Cardinality(Callers)
  /\ delivery = NoDelivery
  /\ manager = OpenManager

\* Two callers of addContext on one manager, each free to run while the
\* other is suspended at the await of the index.
NextAppend ==
  \/ \E c \in Callers, id \in IdInputs, source \in Sources :
       DM_addContext(c, id, <<CallerWord(c)>>, source)
  \/ \E c \in Callers : DM_addContext_addContext(c)
  \/ \E c \in Callers : Ack(c)

SpecAppend == InitAppend /\ [][NextAppend]_vars

\* Both callers' addContext calls on the same node have returned.
BothAdded(n) ==
  \A c \in Callers :
    /\ pc[c] = "done"
    /\ result[c].op = "addContext" /\ result[c].status = "ok" /\ result[c].id = n

\* The texts of a rolled-up context, in order, the separators left out.
TextsOf(context) == SelectSeq(context, LAMBDA w : w # SEP)

\* The texts of the node's audit trail, oldest first.
TrailOf(db, n) ==
  LET rows == Sqlite_getContextForNode(db, n)
  IN [i \in 1..Len(rows) |-> rows[i].context_entry[1]]

Occurrences(seq, w) == Cardinality({i \in DOMAIN seq : seq[i] = w})

\* ---- C35
\* C35: once the addContext calls of both callers on the same existing node
\* have returned, however their steps interleaved, the node's context holds
\* the text of each call exactly once and the audit trail one entry per call.
C35_NoLostFragment ==
  \A n \in DOMAIN sqlite.nodes :
    BothAdded(n) =>
      /\ \A c \in Callers : Occurrences(TextsOf(sqlite.nodes[n].context), CallerWord(c)) = 1
      /\ Len(TextsOf(sqlite.nodes[n].context)) = Cardinality(Callers)
      /\ \A c \in Callers : Occurrences(TrailOf(sqlite, n), CallerWord(c)) = 1
      /\ Len(TrailOf(sqlite, n)) = Cardinality(Callers)

\* Both calls have returned after running interleaved: c1 wrote its audit
\* entry first and its context last.
C35_Witness ==
  /\ BothAdded("n1")
  /\ TrailOf(sqlite, "n1") = <<"edited", "beta">>
  /\ sqlite.nodes["n1"].context = <<"beta", SEP, "edited">>

\* ---- C36
\* C36: once the addContext calls of both callers on the same node have
\* returned, the texts appear in the node's context in the order of their
\* entries in the audit trail.
C36_SameOrder ==
  \A n \in DOMAIN sqlite.nodes :
    BothAdded(n) => TextsOf(sqlite.nodes[n].context) = TrailOf(sqlite, n)
====
